---- MODULE Spec2Model ----
(***************************************************************************)
(* A model of easymanim: the scene model (logic/scene_builder.py), the     *)
(* render executor (interface/manim_interface.py), and the parts of the    *)
(* coordinator and timeline (ui/ui_manager.py, gui/timeline_panel.py) that *)
(* add, select and delete objects.                                         *)
(*                                                                         *)
(* Seven specifications share the variables:                               *)
(*   SpecRender  render requests, their background threads, the UI queue   *)
(*   SpecScene   direct calls of the SceneBuilder operations               *)
(*   SpecScript  generate_script on every scene within the bounds          *)
(*   SpecEdit    update_object_property / set_object_animation on scenes   *)
(*               of freshly added objects                                  *)
(*   SpecUI      toolbar / timeline events through the UIManager           *)
(*   SpecCoord   preview / video requests through the UIManager, their     *)
(*               threads and completion handlers                           *)
(*   SpecOverlap preview requests made while earlier ones are in flight    *)
(***************************************************************************)
EXTENDS Integers, Sequences, FiniteSets, TLC

VARIABLES
    req,        \* render executor: per-request record (see NewReq)
    sched,      \* tasks accepted by MainApplication.schedule_task, FIFO
    delivered,  \* per request: the (success, payload) pairs the UI loop ran
    objects,    \* SceneBuilder.objects
    call,       \* the last SceneBuilder call: operation and arguments
    ret,        \* what that call returned or raised
    edits,      \* how many property-editing calls the scene has taken
    blocks,     \* TimelinePanel.obj_components: the ids that have a block
    selected,   \* UIManager.selected_object_id
    status,     \* what the last handler wrote to the status bar
    preview,    \* PreviewPanel: refresh button / canvas state, image shown
    shown,      \* PropertiesPanel: the placeholder, or an object's properties
    trace,      \* the last UIManager render handler run: its arguments and
                \* the collaborator calls it made, in order
    fs          \* the script directory and the media directory by name (see
                \* NoFiles); followed under SpecFiles only

vars == <<req, sched, delivered, objects, call, ret, edits, blocks, selected,
          status, preview, shown, trace, fs>>

renderVars == <<req, sched, delivered>>
sceneVars == <<objects, call, ret, edits>>
uiVars == <<blocks, selected, status, preview, shown, trace>>

(***************************************************************************)
(* Bounds                                                                  *)
(***************************************************************************)
MaxRequests == 2
MaxObjects == 2
MaxEdits == 1
\* Longest string value given to _format_manim_prop.
MaxLen == 4

Requests == 1..MaxRequests

\* The names NamedTemporaryFile can give a script, as many as there are
\* requests.  The stem of the name is the directory of the artifacts.
Names == 1..MaxRequests

\* The temporary directory and the media directory: files, the names of the
\* scripts that exist; path[r], script_path of the thread of request r (0:
\* none); media[n], the request whose subprocess last wrote an artifact
\* under stem n (0: none); got[r], the request that wrote the artifact the
\* search of request r matched (0: none); met, the pairs of requests whose
\* threads were alive at the same time.
NoFiles ==
    [files |-> {}, path |-> [r \in Requests |-> 0],
     media |-> [n \in Names |-> 0], got |-> [r \in Requests |-> 0],
     met |-> {}]

(***************************************************************************)
(*                         RENDER EXECUTOR                                 *)
(***************************************************************************)
Formats == {"png", "mp4"}

\* How many files the artifact glob matches: none, one, several.  The code
\* tells these three cases apart and no others.
FoundCounts == {0, 1, 2}

\* What can happen inside the try block of render_async.
\*   ok            the script is written and the thread is started
\*   create_fails  NamedTemporaryFile raises: no file, no path
\*   write_fails   write raises: the file exists (delete=False) but
\*                 temp_script_path_str was not assigned yet
\*   thread_fails  Thread(...) or thread.start() raises: file and path exist
SetupOutcomes == {"ok", "create_fails", "write_fails", "thread_fails"}

\* Payloads: a diagnostic string (msg names the f-string that built it;
\* code, err and out are the values formatted into it), the bytes of the
\* image of request r, the path of the video of request r.
Diag(m) == [kind |-> "diag", of |-> 0, msg |-> m, code |-> 0, err |-> "", out |-> ""]
Bytes(r) == [kind |-> "bytes", of |-> r, msg |-> "", code |-> 0, err |-> "", out |-> ""]
PathOf(r) == [kind |-> "path", of |-> r, msg |-> "", code |-> 0, err |-> "", out |-> ""]

\* x or fallback, on strings.
Or(x, fallback) == IF x # "" THEN x ELSE fallback

\* Variant of FailedMessage that reports the standard error only.
FailedMessageStderrOnly(returncode, stderr, stdout) ==
    [Diag("failed_code") EXCEPT !.code = returncode,
                                !.err = Or(stderr, "[No Stderr]")]

\* f"Manim failed (code {returncode}) for {script_path}:" followed by
\* "--- STDERR ---" with (stderr or '[No Stderr]') and "--- STDOUT ---" with
\* (stdout or '[No Stdout]').
FailedMessage(returncode, stderr, stdout) ==
    [Diag("failed_code") EXCEPT !.code = returncode,
                                !.err = Or(stderr, "[No Stderr]"),
                                !.out = Or(stdout, "[No Stdout]")]

\* A request before render_async is called for it.  success and payload are
\* the locals `success` and `result_data` of _run_manim_thread with their
\* initial values; file says whether the temporary script exists, removes
\* counts the calls of os.remove on it; stderr and stdout are what
\* subprocess.run captured; script, scene and flags are the arguments
\* script_content (script: the mode it was generated for, content: its
\* lines, written to the temporary script), scene_name and quality_flags of
\* render_async.
NewReq ==
    [pc |-> "new", fmt |-> "png", file |-> FALSE, pathKnown |-> FALSE,
     launches |-> 0, exited |-> FALSE, code |-> 0,
     searched |-> FALSE, found |-> FALSE, read |-> FALSE,
     success |-> FALSE, payload |-> Diag("unknown"),
     schedCalls |-> 0, raised |-> FALSE, threads |-> 0, setup |-> "none",
     removes |-> 0, stderr |-> "", stdout |-> "",
     script |-> "", content |-> <<>>, scene |-> "", flags |-> <<>>]

Task(r, s, p) == [of |-> r, success |-> s, payload |-> p]

\* Variant of SetupFailed without the except clause: the exception reaches
\* the caller and nothing is scheduled.
SetupFailedPropagates(q, rmOk) ==
    [q EXCEPT !.pc = "setup_failed", !.raised = TRUE]

\* The except clause of render_async: remove the script when its path is
\* known and it exists (a failing os.remove is caught), then hand the
\* callback to schedule_task with (False, message).

SetupFailed(q, rmOk) ==
    [q EXCEPT !.pc = "setup_failed",
              !.file = IF q.pathKnown /\ q.file /\ rmOk THEN FALSE ELSE q.file,
              !.removes = IF q.pathKnown /\ q.file THEN q.removes + 1
                          ELSE q.removes,
              !.success = FALSE,
              !.payload = Diag("setup"),
              !.schedCalls = q.schedCalls + 1]

\* A script text: the mode it was generated for and the lines of its body.
ScriptText(mode, lines) == [mode |-> mode, lines |-> lines]

\* The arguments of render_async.
RenderArgs(script_content, scene_name, quality_flags, output_format) ==
    [script_content |-> script_content, scene_name |-> scene_name,
     quality_flags |-> quality_flags, output_format |-> output_format]

\* The two calls the coordinator makes.
PreviewArgs ==
    RenderArgs(ScriptText("preview", <<>>), "PreviewScene", <<"-s", "-ql">>, "png")
VideoArgs ==
    RenderArgs(ScriptText("render", <<>>), "EasyManimScene", <<"-ql">>, "mp4")

RenderInputs == {PreviewArgs, VideoArgs}

\* The try block of render_async up to the point where it raises or ends.
TrySetup(q, a, setup) ==
    LET q0 == [q EXCEPT !.fmt = a.output_format,
                        !.script = a.script_content.mode,
                        !.content = a.script_content.lines,
                        !.scene = a.scene_name, !.flags = a.quality_flags,
                        !.setup = setup]
    IN
    CASE setup = "ok" ->
            [q0 EXCEPT !.file = TRUE, !.pathKnown = TRUE,
                       !.threads = q.threads + 1, !.pc = "started"]
      [] setup = "create_fails" -> q0
      [] setup = "write_fails" -> [q0 EXCEPT !.file = TRUE]
      [] setup = "thread_fails" ->
            [q0 EXCEPT !.file = TRUE, !.pathKnown = TRUE]

render_async(q, a, setup, rmOk) ==
    IF setup = "ok" THEN TrySetup(q, a, setup)
    ELSE SetupFailed(TrySetup(q, a, setup), rmOk)

RenderAsync(r) ==
    /\ req[r].pc = "new"
    /\ \A k \in 1..(r - 1) : req[k].pc # "new"
    /\ \E a \in RenderInputs, setup \in SetupOutcomes, rmOk \in BOOLEAN :
         LET q == render_async(req[r], a, setup, rmOk) IN
         /\ req' = [req EXCEPT ![r] = q]
         /\ sched' = IF q.schedCalls > req[r].schedCalls
                     THEN Append(sched, Task(r, q.success, q.payload))
                     ELSE sched
    /\ UNCHANGED <<delivered, sceneVars, uiVars, fs>>

\* subprocess.run is called: either the process is spawned, or the call
\* raises (caught by the outer except of _run_manim_thread).
SubprocessLaunch(r) ==
    /\ req[r].pc = "started"
    /\ \E spawned \in BOOLEAN :
         req' = [req EXCEPT ![r] =
                   IF spawned
                   THEN [@ EXCEPT !.launches = @ + 1, !.pc = "running"]
                   ELSE [@ EXCEPT !.launches = @ + 1, !.success = FALSE,
                                  !.payload = Diag("exception"),
                                  !.pc = "finally"]]
    /\ UNCHANGED <<sched, delivered, sceneVars, uiVars, fs>>

\* Variant of ExitResult in which the thread empties the script it ran.
ExitResultClearsScript(q, c, stderr, stdout) ==
    [q EXCEPT !.exited = TRUE, !.code = c, !.content = <<>>,
              !.pc = IF c = 0 THEN "search" ELSE "finally"]

\* Variant of ExitResult that runs the subprocess again after a failure.
ExitResultRetry(q, c, stderr, stdout) ==
    IF c = 0
    THEN [q EXCEPT !.exited = TRUE, !.code = c, !.pc = "search"]
    ELSE [q EXCEPT !.pc = "started"]

\* subprocess.run returns with a return code: 0 goes on to the artifact
\* search, anything else is a failure whose message carries the code and the
\* captured output.

ExitResult(q, c, stderr, stdout) ==
    IF c = 0
    THEN [q EXCEPT !.exited = TRUE, !.code = c, !.pc = "search",
                   !.stderr = stderr, !.stdout = stdout]
    ELSE [q EXCEPT !.exited = TRUE, !.code = c,
                   !.stderr = stderr, !.stdout = stdout,
                   !.payload = FailedMessage(c, stderr, stdout),
                   !.pc = "finally"]

\* Return codes, and the (stderr, stdout) pairs the subprocess may leave:
\* an error on stderr, or nothing on stderr and a log on stdout.  The
\* output of a run with return code 0 is never read, so it is left empty
\* there.
ExitCodes == {0, 1}

CapturedInputs == {<<"Traceback", "">>, <<"", "log">>}

SubprocessExit(r) ==
    /\ req[r].pc = "running"
    /\ \E c \in ExitCodes, cap \in CapturedInputs :
         LET stderr == IF c = 0 THEN "" ELSE cap[1]
             stdout == IF c = 0 THEN "" ELSE cap[2]
         IN req' = [req EXCEPT ![r] = ExitResult(@, c, stderr, stdout)]
    /\ UNCHANGED <<sched, delivered, sceneVars, uiVars, fs>>

\* Variant of SearchResult that reports success after return code 0 whatever
\* the search found.
SearchResultAlwaysSuccess(q, r, globOk, n, readOk) ==
    IF q.fmt = "png"
    THEN [q EXCEPT !.searched = TRUE, !.found = globOk /\ n > 0,
                   !.read = globOk /\ n > 0 /\ readOk,
                   !.success = TRUE, !.payload = Bytes(r)]
    ELSE [q EXCEPT !.searched = TRUE, !.found = globOk /\ n > 0,
                   !.success = TRUE, !.payload = PathOf(r)]

\* The artifact search after return code 0.  globOk: the glob did not raise;
\* n: the number of files it matched; readOk: read_bytes did not raise.
\* png: the inner try turns a raising glob or read into a message.  mp4: a
\* raising glob reaches the outer except.
SearchResult(q, r, globOk, n, readOk) ==
    IF q.fmt = "png"
    THEN IF ~globOk THEN
            [q EXCEPT !.searched = TRUE, !.payload = Diag("png_search_failed")]
         ELSE IF n = 0 THEN
            [q EXCEPT !.searched = TRUE, !.payload = Diag("png_not_found")]
         ELSE IF ~readOk THEN
            [q EXCEPT !.searched = TRUE, !.found = TRUE,
                      !.payload = Diag("png_search_failed")]
         ELSE
            [q EXCEPT !.searched = TRUE, !.found = TRUE, !.read = TRUE,
                      !.success = TRUE, !.payload = Bytes(r)]
    ELSE IF ~globOk THEN
            [q EXCEPT !.searched = TRUE, !.success = FALSE,
                      !.payload = Diag("exception")]
         ELSE IF n = 0 THEN
            [q EXCEPT !.searched = TRUE, !.payload = Diag("mp4_not_found")]
         ELSE
            [q EXCEPT !.searched = TRUE, !.found = TRUE,
                      !.success = TRUE, !.payload = PathOf(r)]

ArtifactSearch(r) ==
    /\ req[r].pc = "search"
    /\ \E globOk \in BOOLEAN, n \in FoundCounts, readOk \in BOOLEAN :
         req' = [req EXCEPT ![r] =
                   [SearchResult(@, r, globOk, n, readOk) EXCEPT !.pc = "finally"]]
    /\ UNCHANGED <<sched, delivered, sceneVars, uiVars, fs>>

\* Variant of ScheduleStep that hands the callback over on success only.
ScheduleStepOnSuccessOnly(q) ==
    IF q.success THEN [q EXCEPT !.schedCalls = @ + 1] ELSE q

\* finally, first half: schedule_task(callback, success, result_data) inside
\* its own try; an exception of the call is caught and printed.

ScheduleStep(q) ==
    [q EXCEPT !.schedCalls = @ + 1]

\* Variant of CleanupStep that removes the script after a successful render
\* only.
CleanupStepOnSuccessOnly(q, rmOk) ==
    [q EXCEPT !.file = IF q.file /\ rmOk /\ q.success THEN FALSE ELSE q.file,
              !.removes = IF q.file /\ q.success THEN q.removes + 1
                          ELSE q.removes,
              !.pc = "done"]

\* finally, second half: remove the script if it exists; OSError is caught.
CleanupStep(q, rmOk) ==
    [q EXCEPT !.file = IF q.file /\ rmOk THEN FALSE ELSE q.file,
              !.removes = IF q.file THEN q.removes + 1 ELSE q.removes,
              !.pc = "done"]

\* Variant of FinallyBlock in which the thread calls the callback itself
\* instead of handing it to schedule_task.
FinallyBlockCallsBack(r) ==
    /\ req[r].pc = "finally"
    /\ \E rmOk \in BOOLEAN :
         LET q == ScheduleStep(req[r]) IN
         /\ req' = [req EXCEPT ![r] = CleanupStep(q, rmOk)]
         /\ delivered' = [delivered EXCEPT ![r] =
                            Append(@, <<q.success, q.payload>>)]
         /\ preview' = [preview EXCEPT !.state = "idle"]
    /\ UNCHANGED <<sched, sceneVars, blocks, selected, status, shown, trace, fs>>

\* Variant of FinallyBlock without the try around schedule_task: when the
\* call raises, the exception leaves the thread before the cleanup.
FinallyBlockUnguarded(r) ==
    /\ req[r].pc = "finally"
    /\ \E accepted \in BOOLEAN, rmOk \in BOOLEAN :
         LET q == ScheduleStep(req[r]) IN
         /\ req' = [req EXCEPT ![r] =
                      IF accepted THEN CleanupStep(q, rmOk)
                      ELSE [q EXCEPT !.raised = TRUE, !.pc = "done"]]
         /\ sched' = IF accepted /\ q.schedCalls > req[r].schedCalls
                     THEN Append(sched, Task(r, q.success, q.payload))
                     ELSE sched
    /\ UNCHANGED <<delivered, sceneVars, uiVars, fs>>

\* The finally block of _run_manim_thread.  accepted: schedule_task took the
\* task (called from the background thread it may raise instead); rmOk:
\* os.remove did not raise.
FinallyBlock(r) ==
    /\ req[r].pc = "finally"
    /\ \E accepted \in BOOLEAN, rmOk \in BOOLEAN :
         LET q == ScheduleStep(req[r]) IN
         /\ req' = [req EXCEPT ![r] = CleanupStep(q, rmOk)]
         /\ sched' = IF accepted /\ q.schedCalls > req[r].schedCalls
                     THEN Append(sched, Task(r, q.success, q.payload))
                     ELSE sched
    /\ UNCHANGED <<delivered, sceneVars, uiVars, fs>>

\* The Tk event loop runs the oldest scheduled task: callback(success, payload).
RunScheduledTask ==
    /\ sched # <<>>
    /\ LET t == Head(sched) IN
         delivered' = [delivered EXCEPT ![t.of] =
                         Append(@, <<t.success, t.payload>>)]
    /\ sched' = Tail(sched)
    /\ UNCHANGED <<req, sceneVars, uiVars, fs>>

(***************************************************************************)
(*                            SCENE MODEL                                  *)
(***************************************************************************)
\* Property values.  A number is kept in tenths (1.0 is 10) with its Python
\* type; a string keeps its text.
FloatV(tenths) == [t |-> "float", n |-> tenths, s |-> ""]
IntV(units) == [t |-> "int", n |-> units * 10, s |-> ""]
StrV(text) == [t |-> "str", n |-> 0, s |-> text]
NoneVal == [t |-> "none", n |-> 0, s |-> ""]

IsNum(v) == v.t \in {"float", "int"}

DEFAULT_CIRCLE_PROPS ==
    [pos_x |-> FloatV(0), pos_y |-> FloatV(0), pos_z |-> FloatV(0),
     radius |-> FloatV(10), fill_color |-> StrV("#58C4DD"), opacity |-> FloatV(10),
     stroke_color |-> StrV("#FFFFFF"), stroke_width |-> FloatV(20),
     stroke_opacity |-> FloatV(10), animation |-> StrV("None")]

DEFAULT_SQUARE_PROPS ==
    [pos_x |-> FloatV(0), pos_y |-> FloatV(0), pos_z |-> FloatV(0),
     side_length |-> FloatV(20), fill_color |-> StrV("#58C4DD"),
     opacity |-> FloatV(10), stroke_color |-> StrV("#FFFFFF"),
     stroke_width |-> FloatV(20), stroke_opacity |-> FloatV(10),
     animation |-> StrV("None")]

DEFAULT_TEXT_PROPS ==
    [pos_x |-> FloatV(0), pos_y |-> FloatV(0), pos_z |-> FloatV(0),
     text_content |-> StrV("Text"), fill_color |-> StrV("#FFFFFF"),
     font_size |-> IntV(48), opacity |-> FloatV(10),
     stroke_color |-> StrV("#000000"), stroke_opacity |-> FloatV(10),
     animation |-> StrV("None")]

DEFAULT_PROPS_MAP ==
    [Circle |-> DEFAULT_CIRCLE_PROPS,
     Square |-> DEFAULT_SQUARE_PROPS,
     Text |-> DEFAULT_TEXT_PROPS]

Types == DOMAIN DEFAULT_PROPS_MAP

\* str.lower() on the type strings the model passes to add_object.
Lower(T) ==
    CASE T = "Circle" -> "circle"
      [] T = "Square" -> "square"
      [] T = "Text" -> "text"
      [] T = "Triangle" -> "triangle"
      [] OTHER -> T

\* uuid.uuid4().hex[:6]: a random draw from the 16^6 suffixes; the model
\* draws from these.  Nothing in the code keeps two draws apart.
Suffixes == {"a1b2c3", "d4e5f6"}

\* f"{obj_type.lower()}_{suffix}"
MakeId(T, sfx) == [prefix |-> Lower(T), suffix |-> sfx]

generate_unique_id(T, sfx) == MakeId(T, sfx)

NoId == [prefix |-> "", suffix |-> ""]

Ids(objs) == {objs[i].id : i \in 1..Len(objs)}

\* Results of a SceneBuilder call.
RetNone == [kind |-> "none"]
RetId(id) == [kind |-> "id", id |-> id]
RetRaise(exc) == [kind |-> "raise", exc |-> exc]
RetProps(found, props) == [kind |-> "props", found |-> found, props |-> props]

\* Variant of add_object without the supported-type check.
add_objectNoCheck(objs, T, sfx) ==
    LET new_id == generate_unique_id(T, sfx) IN
    [objects |-> Append(objs, [id |-> new_id, type |-> T,
                               properties |-> IF T \in Types
                                              THEN DEFAULT_PROPS_MAP[T]
                                              ELSE DEFAULT_CIRCLE_PROPS]),
     ret |-> RetId(new_id)]

\* add_object: the new object list and the result.
add_object(objs, T, sfx) ==
    IF T \notin Types
    THEN [objects |-> objs, ret |-> RetRaise("ValueError")]
    ELSE LET new_id == generate_unique_id(T, sfx) IN
         [objects |-> Append(objs, [id |-> new_id, type |-> T,
                                    properties |-> DEFAULT_PROPS_MAP[T]]),
          ret |-> RetId(new_id)]

\* Variant of FirstIndex that falls back to the last object when no object
\* has the id.
FirstIndexOrLast(objs, id) ==
    IF \E i \in 1..Len(objs) : objs[i].id = id
    THEN CHOOSE i \in 1..Len(objs) :
           /\ objs[i].id = id
           /\ \A j \in 1..(i - 1) : objs[j].id # id
    ELSE Len(objs)

\* Index of the first object with the id, 0 when there is none (the for
\* loops of get_object_properties, update_object_property and
\* set_object_animation all stop at the first match).
FirstIndex(objs, id) ==
    IF \E i \in 1..Len(objs) : objs[i].id = id
    THEN CHOOSE i \in 1..Len(objs) :
           /\ objs[i].id = id
           /\ \A j \in 1..(i - 1) : objs[j].id # id
    ELSE 0

\* Variant of get_object_properties that returns the type's defaults
\* instead of the object's own dictionary.
get_object_propertiesDefaults(objs, id) ==
    LET i == FirstIndex(objs, id) IN
    IF i = 0 THEN RetProps(FALSE, <<>>)
    ELSE RetProps(TRUE, DEFAULT_PROPS_MAP[objs[i].type])

get_object_properties(objs, id) ==
    LET i == FirstIndex(objs, id) IN
    IF i = 0 THEN RetProps(FALSE, <<>>)
    ELSE RetProps(TRUE, objs[i].properties)

\* Variant of SetKey that replaces the dictionary by the single entry.
SetKeyOnly(props, key, v) == [k \in {key} |-> v]

\* dict item assignment: overwrite the key or add it.
SetKey(props, key, v) ==
    [k \in DOMAIN props \cup {key} |-> IF k = key THEN v ELSE props[k]]

\* Variant of set_object_animation whose loop does not stop at the first
\* match and, finding none, is still a no-op.
set_object_animationEveryObject(objs, id, anim_name) ==
    IF FirstIndex(objs, id) = 0 THEN objs
    ELSE [j \in 1..Len(objs) |->
            [objs[j] EXCEPT !.properties = SetKey(@, "animation", StrV(anim_name))]]

set_object_animation(objs, id, anim_name) ==
    LET i == FirstIndex(objs, id) IN
    IF i = 0 THEN objs
    ELSE [objs EXCEPT ![i].properties = SetKey(@, "animation", StrV(anim_name))]

\* float(value): a number converts; a numeric string parses; any other
\* string raises ValueError; None raises TypeError.
NumericStrings == {"1.5", "2"}
ParseFloat(text) == IF text = "1.5" THEN 15 ELSE 20

ToFloat(v) ==
    CASE IsNum(v) -> [ok |-> TRUE, exc |-> "", val |-> FloatV(v.n)]
      [] v.t = "str" /\ v.s \in NumericStrings ->
            [ok |-> TRUE, exc |-> "", val |-> FloatV(ParseFloat(v.s))]
      [] v.t = "str" -> [ok |-> FALSE, exc |-> "ValueError", val |-> v]
      [] OTHER -> [ok |-> FALSE, exc |-> "TypeError", val |-> v]

\* str(value), on the values the model passes.
ToStr(v) ==
    CASE v.t = "str" -> v
      [] v.t = "none" -> StrV("None")
      [] v.t = "int" /\ v.n = 20 -> StrV("2")
      [] v.t = "float" /\ v.n = 15 -> StrV("1.5")
      [] v.t = "float" /\ v.n = 20 -> StrV("2.0")
      [] OTHER -> StrV("<number>")

FloatKeys ==
    {"radius", "side_length", "font_size", "opacity", "stroke_width",
     "stroke_opacity"}

\* Variant of pos_keys with the first two axes exchanged.
pos_keysSwapped == <<"pos_y", "pos_x", "pos_z">>

pos_keys == <<"pos_x", "pos_y", "pos_z">>

NoAxis == -1

\* update_object_property: the new object list and the result (None, or the
\* exception that escapes: only ValueError is caught around float()).
update_object_property(objs, id, prop_key, value, axis_index) ==
    LET i == FirstIndex(objs, id)
        put(k, v) == [objects |-> [objs EXCEPT ![i].properties = SetKey(@, k, v)],
                      ret |-> RetNone]
        same == [objects |-> objs, ret |-> RetNone]
        coerced(k) ==
            LET f == ToFloat(value) IN
            IF f.ok THEN put(k, f.val)
            ELSE IF f.exc = "ValueError" THEN same
            ELSE [objects |-> objs, ret |-> RetRaise(f.exc)]
    IN
    IF i = 0 THEN same
    ELSE IF prop_key = "position" /\ axis_index # NoAxis THEN
            IF 0 <= axis_index /\ axis_index < Len(pos_keys)
            THEN coerced(pos_keys[axis_index + 1])
            ELSE same
    ELSE IF prop_key = "animation" THEN put(prop_key, ToStr(value))
    ELSE IF prop_key \in FloatKeys THEN coerced(prop_key)
    ELSE IF prop_key \in {"text_content", "fill_color"}
         THEN put(prop_key, ToStr(value))
    ELSE put(prop_key, value)

(***************************************************************************)
(* generate_script.  A script is the sequence of the statements of the     *)
(* construct body, one record per line:                                    *)
(*   ctor     <var> = <Type>(...).move_to(...)    z: the z_index argument  *)
(*   play     self.play(<anim>(<var>))                                     *)
(*   add      self.add(<var>)                     why: trailing comment    *)
(*   raise    self.bring_to_front(<var>)          why: trailing comment    *)
(*   comment  a comment line                                               *)
(*   pass     the body of an empty scene                                   *)
(* src is the position in the scene of the object the loop was at when it  *)
(* appended the line (0 for comments and pass); it is not part of the text.*)
(***************************************************************************)
Line(k, var, anim, why, z, src) ==
    [k |-> k, var |-> var, anim |-> anim, why |-> why, z |-> z, src |-> src]

\* for obj in self.objects, with the position of obj.
WithIdx(objs) ==
    [i \in 1..Len(objs) |->
        [id |-> objs[i].id, type |-> objs[i].type,
         properties |-> objs[i].properties, idx |-> i]]

\* Scene inputs of the generator: pos_z in tenths, animation names (Spin
\* stands for any name the generator does not know).
AnimationInputs == {"None", "FadeIn", "GrowFromCenter", "Write", "Spin"}
PosZInputs == {0, 10}

\* f"{obj_type.lower()}_{obj_id[-6:]}"
VarName(obj) == [prefix |-> Lower(obj.type), suffix |-> obj.id.suffix]

Anim(obj) == obj.properties["animation"].s
PosZ(obj) == obj.properties["pos_z"].n

Max(a, b) == IF a >= b THEN a ELSE b

\* max(0, int(pos_z * 10)), pos_z being n tenths.
ZIndex(obj) == Max(0, PosZ(obj))

\* int(z_pos) truncates toward zero.
Trunc(tenths) == IF tenths >= 0 THEN tenths \div 10 ELSE -((-tenths) \div 10)

CtorLine(obj) ==
    Line("ctor", VarName(obj), "", obj.type,
         IF obj.type # "Text" THEN ZIndex(obj) ELSE 0, obj.idx)

\* Variant of IsIntro that takes Write as an intro animation of any type.
IsIntroWriteForAnyType(obj) ==
    Anim(obj) \in {"FadeIn", "GrowFromCenter", "Write"}

\* The if/elif chain of the first loop that recognises an intro animation.

IsIntro(obj) ==
    \/ Anim(obj) = "FadeIn"
    \/ Anim(obj) = "GrowFromCenter"
    \/ Anim(obj) = "Write" /\ obj.type = "Text"

\* First loop, per object: the play line it appends.
PlayLinesOf(obj, script_type) ==
    IF script_type = "render" /\ Anim(obj) # "None" /\ IsIntro(obj)
    THEN <<Line("play", VarName(obj), Anim(obj), "", 0, obj.idx)>>
    ELSE <<>>

\* First loop, per object: the add lines it appends.
FirstLoopAddsOf(obj, script_type) ==
    LET intro == script_type = "render" /\ Anim(obj) # "None" /\ IsIntro(obj)
        inRender ==
            IF script_type = "render" /\ Anim(obj) # "None" /\ ~IsIntro(obj)
            THEN IF Anim(obj) = "Write" /\ obj.type # "Text"
                 THEN <<Line("add", VarName(obj), Anim(obj), "not_applicable", 0, obj.idx)>>
                 ELSE <<Line("add", VarName(obj), Anim(obj), "default_add", 0, obj.idx)>>
            ELSE <<>>
        after ==
            IF ~intro /\ Anim(obj) # "None"
            THEN <<Line("add", VarName(obj), Anim(obj), "for_animation", 0, obj.idx)>>
            ELSE <<>>
    IN inRender \o after

RECURSIVE FlatMap(_, _, _)
FlatMap(Op(_, _), objs, script_type) ==
    IF objs = <<>> THEN <<>>
    ELSE Op(Head(objs), script_type) \o FlatMap(Op, Tail(objs), script_type)

\* Variant of SkippedInSecondLoop that skips nothing: every object goes on
\* to the z-ordered adds.
SkippedInSecondLoopNever(obj, script_type) == FALSE

\* Variant of SkippedInSecondLoop that skips every object: only the first
\* loop adds.
SkippedInSecondLoopAlways(obj, script_type) == TRUE

\* Second loop: the objects left for the z-ordered adds.
SkippedInSecondLoop(obj, script_type) ==
    /\ script_type = "render"
    /\ \/ Anim(obj) = "FadeIn"
       \/ Anim(obj) = "GrowFromCenter"
       \/ Anim(obj) = "Write" /\ obj.type = "Text"

RECURSIVE SelectObjs(_, _, _)
SelectObjs(objs, script_type, wantText) ==
    IF objs = <<>> THEN <<>>
    ELSE LET o == Head(objs)
             rest == SelectObjs(Tail(objs), script_type, wantText)
         IN IF ~SkippedInSecondLoop(o, script_type) /\ ((o.type = "Text") = wantText)
            THEN <<o>> \o rest
            ELSE rest

\* list.sort(key=...) is stable: insertion after the last element whose key
\* is not greater.
RECURSIVE InsertByKey(_, _, _)
InsertByKey(sorted, o, desc) ==
    IF sorted = <<>> THEN <<o>>
    ELSE LET last == sorted[Len(sorted)]
             before == IF desc THEN PosZ(last) >= PosZ(o) ELSE PosZ(last) <= PosZ(o)
         IN IF before THEN Append(sorted, o)
            ELSE Append(InsertByKey(SubSeq(sorted, 1, Len(sorted) - 1), o, desc), last)

RECURSIVE SortByZ(_, _)
SortByZ(objs, desc) ==
    IF objs = <<>> THEN <<>>
    ELSE InsertByKey(SortByZ(SubSeq(objs, 1, Len(objs) - 1), desc),
                     objs[Len(objs)], desc)

RECURSIVE Repeat(_, _)
Repeat(line, n) == IF n <= 0 THEN <<>> ELSE <<line>> \o Repeat(line, n - 1)

ZAdd(obj, script_type) == <<Line("add", VarName(obj), "", "z_order", PosZ(obj), obj.idx)>>
Raise(obj, script_type) == <<Line("raise", VarName(obj), "", "force_top", PosZ(obj), obj.idx)>>
ExtraRaise(obj, script_type) ==
    Repeat(Line("raise", VarName(obj), "", "extra", PosZ(obj), obj.idx),
           Max(1, Trunc(PosZ(obj))))

RECURSIVE PositiveZ(_)
PositiveZ(objs) ==
    IF objs = <<>> THEN <<>>
    ELSE IF PosZ(Head(objs)) > 0 THEN <<Head(objs)>> \o PositiveZ(Tail(objs))
    ELSE PositiveZ(Tail(objs))

Comment(text) == Line("comment", NoId, "", text, 0, 0)

\* The add_lines the z-ordering pass appends after the first loop's.
ZOrderLines(objs, script_type) ==
    LET shapes == SortByZ(SelectObjs(objs, script_type, FALSE), FALSE)
        texts == SortByZ(SelectObjs(objs, script_type, TRUE), FALSE)
        positive == SortByZ(PositiveZ(texts), TRUE)
    IN (IF shapes # <<>>
        THEN <<Comment("shapes")>> \o FlatMap(ZAdd, shapes, script_type)
        ELSE <<>>)
       \o
       (IF texts # <<>>
        THEN <<Comment("texts")>> \o FlatMap(ZAdd, texts, script_type)
             \o <<Comment("texts_on_top")>> \o FlatMap(Raise, texts, script_type)
             \o (IF positive # <<>>
                 THEN <<Comment("extra")>> \o FlatMap(ExtraRaise, positive, script_type)
                 ELSE <<>>)
        ELSE <<>>)

CtorOf(obj, script_type) == <<CtorLine(obj)>>

\* Variant of SceneName that names every scene class PreviewScene.
SceneNameAlwaysPreview(script_type) == "PreviewScene"

SceneName(script_type) ==
    IF script_type = "preview" THEN "PreviewScene" ELSE "EasyManimScene"

\* imports + ["", class_def, construct_def]: the lines of the script before
\* the indented body.
ScriptHead(script_type) ==
    <<"# Generated by EasyManim",
      "from manim import *",
      "import numpy as np # Often needed for positioning",
      "",
      "class " \o SceneName(script_type) \o "(Scene):",
      "    def construct(self):">>

\* The body of construct(), in the order the script is assembled: the
\* z-index header comments, the constructors, then for render the play lines
\* and the add lines, for preview the add lines.
ScriptBody(objs, script_type) ==
    LET creation == FlatMap(CtorOf, WithIdx(objs), script_type)
        plays == FlatMap(PlayLinesOf, WithIdx(objs), script_type)
        adds == FlatMap(FirstLoopAddsOf, WithIdx(objs), script_type)
                  \o ZOrderLines(WithIdx(objs), script_type)
        header == IF \E i \in 1..Len(objs) : PosZ(objs[i]) # 0
                  THEN <<Comment("z_header_1"), Comment("z_header_2")>>
                  ELSE <<>>
    IN IF creation = <<>> /\ adds = <<>> /\ plays = <<>>
       THEN <<Line("pass", NoId, "", "", 0, 0)>>
       ELSE header \o creation
              \o (IF script_type = "render" THEN plays \o adds ELSE adds)

\* int(pos_z * 10) needs a number: a string is repeated and does not parse
\* (ValueError), None cannot be multiplied (TypeError).  The first object
\* with such a pos_z ends the call.
generate_script(objs, script_type) ==
    IF \E i \in 1..Len(objs) : ~IsNum(objs[i].properties["pos_z"])
    THEN LET i == CHOOSE i \in 1..Len(objs) :
                    /\ ~IsNum(objs[i].properties["pos_z"])
                    /\ \A j \in 1..(i - 1) : IsNum(objs[j].properties["pos_z"])
         IN RetRaise(IF objs[i].properties["pos_z"].t = "str"
                     THEN "ValueError" ELSE "TypeError")
    ELSE [kind |-> "script", mode |-> script_type,
          head |-> ScriptHead(script_type),
          lines |-> ScriptBody(objs, script_type),
          scene_name |-> SceneName(script_type)]

(***************************************************************************)
(* SceneBuilder calls as actions                                           *)
(***************************************************************************)
TypeInputs == Types \cup {"Triangle", "circle"}

StaleId == [prefix |-> "circle", suffix |-> "000000"]

IdInputs == Ids(objects) \cup {StaleId}

Call(op, id, arg) == [op |-> op, id |-> id, arg |-> arg]

AddObject ==
    \E T \in TypeInputs, sfx \in Suffixes :
        /\ T \in Types => Len(objects) < MaxObjects
        /\ LET r == add_object(objects, T, sfx) IN
             /\ objects' = r.objects
             /\ ret' = r.ret
        /\ call' = Call("add_object", NoId, T)
        /\ UNCHANGED <<edits, renderVars, uiVars, fs>>

SetObjectAnimation ==
    \E id \in IdInputs, name \in AnimationInputs :
        /\ edits < MaxEdits
        /\ objects' = set_object_animation(objects, id, name)
        /\ ret' = RetNone
        /\ call' = Call("set_object_animation", id, name)
        /\ edits' = edits + 1
        /\ UNCHANGED <<renderVars, uiVars, fs>>

GetObjectProperties ==
    \E id \in IdInputs :
        /\ ret' = get_object_properties(objects, id)
        /\ call' = Call("get_object_properties", id, "")
        /\ UNCHANGED <<objects, edits, renderVars, uiVars, fs>>

\* Arguments of update_object_property: (prop_key, value, axis_index).  The
\* axis only matters with key "position"; 3 is an axis out of range.
PropKeyInputs ==
    {"radius", "pos_x", "position", "fill_color", "animation",
     "non_existent_prop"}

ValueInputs == {IntV(2), StrV("1.5"), StrV("abc"), NoneVal}

AxisInputs == {0, 1, 2, 3}

UpdateInputs ==
    {<<k, v, NoAxis>> : k \in PropKeyInputs, v \in ValueInputs}
      \cup {<<"position", v, a>> : v \in ValueInputs, a \in AxisInputs}
      \cup {<<"radius", v, 1>> : v \in ValueInputs}

CallUpdate(id, prop_key, value, axis_index) ==
    [op |-> "update_object_property", id |-> id, arg |-> prop_key,
     value |-> value, axis |-> axis_index]

UpdateObjectProperty ==
    \E id \in IdInputs, in \in UpdateInputs :
        /\ edits < MaxEdits
        /\ LET r == update_object_property(objects, id, in[1], in[2], in[3]) IN
             /\ objects' = r.objects
             /\ ret' = r.ret
        /\ call' = CallUpdate(id, in[1], in[2], in[3])
        /\ edits' = edits + 1
        /\ UNCHANGED <<renderVars, uiVars, fs>>

GenerateScript ==
    \E script_type \in {"preview", "render"} :
        /\ ret' = generate_script(objects, script_type)
        /\ call' = Call("generate_script", NoId, script_type)
        /\ UNCHANGED <<objects, edits, renderVars, uiVars, fs>>

(***************************************************************************)
(*                     COORDINATOR AND TIMELINE                            *)
(***************************************************************************)
\* The canvas of the preview panel without an image.
NoImage == [kind |-> "none", of |-> 0, msg |-> "", code |-> 0, err |-> "", out |-> ""]

NoTrace == [handler |-> "", success |-> FALSE, payload |-> NoImage, calls |-> <<>>]

Trace(handler, success, payload, calls) ==
    [handler |-> handler, success |-> success, payload |-> payload,
     calls |-> calls]

NoSelection == NoId

\* f"{obj_id}": the id as text.
IdText(id) == id.prefix \o "_" \o id.suffix

\* PropertiesPanel.show_placeholder / display_properties(obj_id, props):
\* what the panel shows afterwards.
Placeholder == [mode |-> "placeholder", id |-> NoId, props |-> <<>>]
Properties(obj_id, props) == [mode |-> "properties", id |-> obj_id, props |-> props]

\* Variant of handle_timeline_selection that takes every id it is given for
\* an id of the scene.
handle_timeline_selectionNoStaleCheck(objs, x) ==
    IF x # NoSelection
    THEN [selected |-> x,
          shown |-> Properties(x, get_object_properties(objs, x).props),
          status |-> "Selected: " \o IdText(x),
          calls |-> <<"get_object_properties", "display_properties",
                      "set_status">>]
    ELSE [selected |-> x,
          shown |-> Placeholder,
          status |-> "Ready",
          calls |-> <<"show_placeholder", "set_status">>]

\* UIManager.handle_timeline_selection: remember the selection, then show
\* the object's properties, or the placeholder with "not found" (stale id),
\* or the placeholder with "Ready" (None).
handle_timeline_selection(objs, x) ==
    IF x # NoSelection
    THEN LET props == get_object_properties(objs, x) IN
         IF props.found
         THEN [selected |-> x,
               shown |-> Properties(x, props.props),
               status |-> "Selected: " \o IdText(x),
               calls |-> <<"get_object_properties", "display_properties",
                           "set_status">>]
         ELSE [selected |-> x,
               shown |-> Placeholder,
               status |-> "Error: Object " \o IdText(x) \o " not found",
               calls |-> <<"get_object_properties", "show_placeholder",
                           "set_status">>]
    ELSE [selected |-> x,
          shown |-> Placeholder,
          status |-> "Ready",
          calls |-> <<"show_placeholder", "set_status">>]

\* Variant of handle_add_object_request that tells the timeline also when
\* add_object raised.
handle_add_object_requestAlwaysBlock(objs, bl, T, sfx) ==
    LET r == add_object(objs, T, sfx) IN
    [objects |-> r.objects, ret |-> r.ret,
     blocks |-> bl \cup {generate_unique_id(T, sfx)},
     status |-> IF r.ret.kind = "id"
                THEN T \o " added (ID: " \o IdText(r.ret.id) \o ")"
                ELSE "Error: Unsupported object type: " \o T,
     calls |-> <<"add_object", "add_block", "set_status">>]

\* UIManager.handle_add_object_request: add_object, then add_block(new_id)
\* on the timeline and the status line; the ValueError of add_object is
\* caught and becomes the status line.
handle_add_object_request(objs, bl, T, sfx) ==
    LET r == add_object(objs, T, sfx) IN
    IF r.ret.kind = "id"
    THEN [objects |-> r.objects, ret |-> r.ret,
          blocks |-> bl \cup {r.ret.id},
          status |-> T \o " added (ID: " \o IdText(r.ret.id) \o ")",
          calls |-> <<"add_object", "add_block", "set_status">>]
    ELSE [objects |-> r.objects, ret |-> r.ret,
          blocks |-> bl,
          status |-> "Error: Unsupported object type: " \o T,
          calls |-> <<"add_object", "set_status">>]

\* Toolbar button: UIManager.handle_add_object_request.  The toolbar offers
\* the three supported types; the handler also catches the ValueError of
\* any other.
HandleAddObjectRequest ==
    \E T \in TypeInputs, sfx \in Suffixes :
        /\ T \in Types => Len(objects) < MaxObjects
        /\ LET h == handle_add_object_request(objects, blocks, T, sfx) IN
             /\ objects' = h.objects
             /\ ret' = h.ret
             /\ blocks' = h.blocks
             /\ status' = h.status
             /\ trace' = Trace("handle_add_object_request", h.ret.kind = "id",
                               NoImage, h.calls)
        /\ call' = Call("add_object", NoId, T)
        /\ UNCHANGED <<selected, preview, shown, edits, renderVars, fs>>

\* TimelinePanel._on_canvas_click on a block (not its delete button), or on
\* the background.
TimelineSelect ==
    \E x \in blocks \cup {NoSelection} :
        /\ LET h == handle_timeline_selection(objects, x) IN
             /\ selected' = h.selected
             /\ status' = h.status
             /\ shown' = h.shown
             /\ trace' = Trace("handle_timeline_selection", TRUE, NoImage,
                               h.calls)
        /\ ret' = IF x = NoSelection THEN ret ELSE get_object_properties(objects, x)
        /\ call' = IF x = NoSelection THEN call
                   ELSE Call("get_object_properties", x, "")
        /\ UNCHANGED <<objects, blocks, preview, edits, renderVars, fs>>

\* handle_timeline_selection called with an id that is not a block of the
\* timeline: an id the scene does not have.
HandleTimelineSelection ==
    \E x \in {StaleId} :
        /\ LET h == handle_timeline_selection(objects, x) IN
             /\ selected' = h.selected
             /\ status' = h.status
             /\ shown' = h.shown
             /\ trace' = Trace("handle_timeline_selection", TRUE, NoImage,
                               h.calls)
        /\ ret' = get_object_properties(objects, x)
        /\ call' = Call("get_object_properties", x, "")
        /\ UNCHANGED <<objects, blocks, preview, edits, renderVars, fs>>

\* Variant of delete_block that takes the object out of the scene and tells
\* the UIManager nothing.
delete_blockRemovesUnnotified(bl, objs, id) ==
    [blocks |-> bl \ {id},
     objects |-> SelectSeq(objs, LAMBDA o : o.id # id),
     sel |-> [selected |-> NoSelection, shown |-> Placeholder,
              status |-> "", calls |-> <<>>],
     notified |-> FALSE]

\* TimelinePanel._on_canvas_click on a delete button: delete_block(id).  The
\* block goes; UIManager has no handle_object_deleted, so the panel falls
\* back to handle_timeline_selection(None).  No SceneBuilder method is
\* called: SceneBuilder has no remove operation.
delete_block(bl, objs, id) ==
    IF id \in bl
    THEN [blocks |-> bl \ {id}, objects |-> objs,
          sel |-> handle_timeline_selection(objs, NoSelection), notified |-> TRUE]
    ELSE [blocks |-> bl, objects |-> objs,
          sel |-> [selected |-> NoSelection, shown |-> Placeholder,
                   status |-> "", calls |-> <<>>],
          notified |-> FALSE]

TimelineDelete ==
    \E id \in blocks :
        LET d == delete_block(blocks, objects, id) IN
        /\ blocks' = d.blocks
        /\ objects' = d.objects
        /\ selected' = IF d.notified THEN d.sel.selected ELSE selected
        /\ status' = IF d.notified THEN d.sel.status ELSE status
        /\ shown' = IF d.notified THEN d.sel.shown ELSE shown
        /\ trace' = IF d.notified
                    THEN Trace("handle_timeline_selection", TRUE, NoImage,
                               d.sel.calls)
                    ELSE trace
        /\ call' = Call("delete_block", id, "")
        /\ ret' = RetNone
        /\ UNCHANGED <<preview, edits, renderVars, fs>>

(***************************************************************************)
(* Coordinator: render requests and completion handlers                    *)
(***************************************************************************)
\* PreviewPanel.show_rendering_state: the refresh button is disabled and the
\* canvas is cleared of the image.
show_rendering_state(p) == [p EXCEPT !.state = "rendering", !.image = NoImage]

\* PreviewPanel.show_idle_state: the button is enabled; an image stays.
show_idle_state(p) == [p EXCEPT !.state = "idle"]

\* Variant of display_image that keeps an image the canvas already shows.
display_imageKeepFirst(p, image_bytes, decodes) ==
    IF p.image # NoImage THEN p
    ELSE [p EXCEPT !.image = IF decodes THEN image_bytes ELSE NoImage]

\* PreviewPanel.display_image: the image replaces what the canvas showed; if
\* the bytes do not decode the panel falls back to its placeholder.
display_image(p, image_bytes, decodes) ==
    [p EXCEPT !.image = IF decodes THEN image_bytes ELSE NoImage]

\* isinstance(result, bytes) / isinstance(result, str) on the payloads.
IsBytes(result) == result.kind = "bytes"
IsStr(result) == result.kind \in {"path", "diag"}

\* Variant of preview_callback that forgets the panel when the result of a
\* successful render is not bytes.
preview_callbackNoReset(p, success, result, decodes) ==
    IF success /\ ~IsBytes(result)
    THEN [preview |-> p, status |-> "Preview error: Invalid result type.",
          calls |-> <<"set_status">>]
    ELSE IF success
    THEN [preview |-> show_idle_state(display_image(p, result, decodes)),
          status |-> "Preview updated.",
          calls |-> <<"display_image", "show_idle_state", "set_status">>]
    ELSE [preview |-> show_idle_state(p), status |-> "Preview failed.",
          calls |-> <<"showerror", "show_idle_state", "set_status">>]

\* UIManager._preview_callback: the new panel state, the status line and
\* the collaborator calls in order.
preview_callback(p, success, result, decodes) ==
    IF success
    THEN IF IsBytes(result)
         THEN [preview |-> show_idle_state(display_image(p, result, decodes)),
               status |-> "Preview updated.",
               calls |-> <<"display_image", "show_idle_state", "set_status">>]
         ELSE [preview |-> show_idle_state(p),
               status |-> "Preview error: Invalid result type.",
               calls |-> <<"show_idle_state", "set_status">>]
    ELSE [preview |-> show_idle_state(p), status |-> "Preview failed.",
          calls |-> <<"showerror", "show_idle_state", "set_status">>]

\* UIManager._render_callback.
render_callback(p, success, result, decodes) ==
    IF success
    THEN IF IsStr(result)
         THEN [preview |-> show_idle_state(p),
               status |-> "Video render complete",
               calls |-> <<"showinfo", "set_status", "show_idle_state">>]
         ELSE [preview |-> show_idle_state(p),
               status |-> "Render error: Invalid result type.",
               calls |-> <<"set_status", "show_idle_state">>]
    ELSE [preview |-> show_idle_state(p), status |-> "Video render failed.",
          calls |-> <<"showerror", "set_status", "show_idle_state">>]

\* The callback a request was submitted with: _preview_callback for png,
\* _render_callback for mp4.
Callback(fmt, p, success, result, decodes) ==
    IF fmt = "png" THEN preview_callback(p, success, result, decodes)
    ELSE render_callback(p, success, result, decodes)

CallbackName(fmt) == IF fmt = "png" THEN "_preview_callback" ELSE "_render_callback"

\* Variant of setup_failed that sets the status line and leaves the panel
\* as it is.
setup_failedNoReset(p, errorStatus, before) ==
    [preview |-> p, status |-> errorStatus,
     calls |-> before \o <<"set_status">>]

\* The except clause of the two request handlers: the error status, then
\* the panel back in the idle state.  before: the collaborator calls the try
\* block had made.
setup_failed(p, errorStatus, before) ==
    [preview |-> show_idle_state(p), status |-> errorStatus,
     calls |-> before \o <<"set_status", "show_idle_state">>]

\* Variant of SubmitRender's argument list with the preview flags for both
\* kinds of request.
RequestFlagsAlwaysStatic(script_type) == <<"-s", "-ql">>

\* quality_flags of the two handlers.
RequestFlags(script_type) ==
    IF script_type = "preview" THEN <<"-s", "-ql">> ELSE <<"-ql">>

\* The body the two request handlers share: generate the script, put the
\* panel in the rendering state, set the status line, call render_async;
\* any exception ends in the except clause.  render_async raises when its
\* own except clause does: schedule_task (line 102) is outside any try, and
\* accepted says whether it took the task.
SubmitRender(r, handler, script_type, quality_flags, fmt, errorStatus) ==
    /\ req[r].pc = "new"
    /\ \A k \in 1..(r - 1) : req[k].pc # "new"
    /\ LET g == generate_script(objects, script_type) IN
       /\ ret' = g
       /\ call' = Call("generate_script", NoId, script_type)
       /\ IF g.kind = "raise"
          THEN LET h == setup_failed(preview, errorStatus,
                                     <<"generate_script">>) IN
               /\ preview' = h.preview
               /\ status' = h.status
               /\ trace' = Trace(handler, FALSE, NoImage, h.calls)
               /\ UNCHANGED <<req, sched>>
          ELSE \E setup \in SetupOutcomes, rmOk \in BOOLEAN, accepted \in BOOLEAN :
                 LET a == RenderArgs(ScriptText(g.mode, g.lines), g.scene_name,
                              quality_flags, fmt)
                     q == render_async(req[r], a, setup, rmOk)
                     raises == setup # "ok" /\ ~accepted
                     busy == show_rendering_state(preview)
                     made == <<"generate_script", "show_rendering_state",
                               "set_status", "render_async">>
                     h == setup_failed(busy, errorStatus, made)
                 IN
                 /\ req' = [req EXCEPT ![r] = [q EXCEPT !.raised = raises]]
                 /\ sched' = IF ~raises /\ q.schedCalls > req[r].schedCalls
                             THEN Append(sched, Task(r, q.success, q.payload))
                             ELSE sched
                 /\ preview' = IF raises THEN h.preview ELSE busy
                 /\ status' = IF raises THEN h.status
                              ELSE IF fmt = "png" THEN "Rendering preview..."
                              ELSE "Rendering video..."
                 /\ trace' = Trace(handler, FALSE, NoImage,
                                   IF raises THEN h.calls ELSE made)
    /\ UNCHANGED <<delivered, objects, edits, blocks, selected, shown, fs>>

\* The Refresh Preview button, enabled while the panel is idle.
HandleRefreshPreviewRequest(r) ==
    /\ preview.state = "idle"
    /\ SubmitRender(r, "handle_refresh_preview_request", "preview",
                    RequestFlags("preview"), "png",
                    "Error generating preview script")

\* The Render Video button of the toolbar; nothing disables it.
HandleRenderVideoRequest(r) ==
    /\ r \in Requests
    /\ SubmitRender(r, "handle_render_video_request", "render",
                    RequestFlags("render"), "mp4",
                    "Error generating render script")

\* The Tk event loop runs the oldest scheduled task: the callback the
\* request was submitted with, on (success, payload).
RunCallback ==
    /\ sched # <<>>
    /\ LET t == Head(sched)
           fmt == req[t.of].fmt
       IN \E decodes \in BOOLEAN :
            LET h == Callback(fmt, preview, t.success, t.payload, decodes) IN
            /\ preview' = h.preview
            /\ status' = h.status
            /\ trace' = Trace(CallbackName(fmt), t.success, t.payload, h.calls)
            /\ delivered' = [delivered EXCEPT ![t.of] =
                               Append(@, <<t.success, t.payload>>)]
    /\ sched' = Tail(sched)
    /\ UNCHANGED <<req, sceneVars, blocks, selected, shown, fs>>

\* A completion handler called with arguments of any shape, as the unit
\* tests call it on a coordinator with no request in flight.
HandlerInputs == {Bytes(1), PathOf(1), FailedMessage(1, "Traceback", "")}

InvokeCompletionHandler ==
    /\ \A r \in Requests : req[r].pc = "new"
    /\ \E fmt \in Formats, success \in BOOLEAN, result \in HandlerInputs,
          decodes \in BOOLEAN :
         LET h == Callback(fmt, preview, success, result, decodes) IN
         /\ preview' = h.preview
         /\ status' = h.status
         /\ trace' = Trace(CallbackName(fmt), success, result, h.calls)
    /\ UNCHANGED <<renderVars, sceneVars, blocks, selected, shown, fs>>

InitRender ==
    /\ req = [r \in Requests |-> NewReq]
    /\ sched = <<>>
    /\ delivered = [r \in Requests |-> <<>>]
    /\ fs = NoFiles

InitScene ==
    /\ objects = <<>>
    /\ call = Call("init", NoId, "")
    /\ ret = RetNone
    /\ edits = 0

InitUI ==
    /\ blocks = {}
    /\ selected = NoSelection
    /\ status = "Ready"
    /\ preview = [state |-> "idle", image |-> NoImage]
    /\ shown = Placeholder
    /\ trace = NoTrace

Init == InitRender /\ InitScene /\ InitUI

NextRender ==
    \/ \E r \in Requests : RenderAsync(r)
    \/ \E r \in Requests : SubprocessLaunch(r)
    \/ \E r \in Requests : SubprocessExit(r)
    \/ \E r \in Requests : ArtifactSearch(r)
    \/ \E r \in Requests : FinallyBlock(r)
    \/ RunScheduledTask

SpecRender == Init /\ [][NextRender]_vars

NextScene ==
    \/ AddObject
    \/ SetObjectAnimation
    \/ GetObjectProperties

SpecScene == Init /\ [][NextScene]_vars

\* The scenes that add_object, set_object_animation and the position editor
\* (update_object_property with key "position", axis 2) can build.
ObjectInputs ==
    {[id |-> MakeId(T, sfx), type |-> T,
      properties |-> [DEFAULT_PROPS_MAP[T] EXCEPT !.animation = StrV(a),
                                                  !.pos_z = FloatV(z)]] :
        T \in Types, sfx \in Suffixes, a \in AnimationInputs, z \in PosZInputs}

SceneInputs ==
    UNION {[1..n -> ObjectInputs] : n \in 0..MaxObjects}

InitScript ==
    /\ InitRender /\ InitUI
    /\ objects \in SceneInputs
    /\ call = Call("init", NoId, "")
    /\ ret = RetNone
    /\ edits = 0

SpecScript == InitScript /\ [][GenerateScript]_vars

\* The scenes the editing calls start from: nothing, one freshly added
\* object, or two (of any types, with the same id suffix or another).
EditScenes ==
    {<<>>}
      \cup {add_object(<<>>, T, "a1b2c3").objects : T \in Types}
      \cup {add_object(add_object(<<>>, T, "a1b2c3").objects, U, sfx).objects :
               T \in Types, U \in Types, sfx \in Suffixes}

InitEdit ==
    /\ InitRender /\ InitUI
    /\ objects \in EditScenes
    /\ call = Call("init", NoId, "")
    /\ ret = RetNone
    /\ edits = 0

NextEdit ==
    \/ UpdateObjectProperty
    \/ SetObjectAnimation
    \/ GetObjectProperties

SpecEdit == InitEdit /\ [][NextEdit]_vars

\* The scenes the coordinator renders: a Circle as added, and a Circle whose
\* pos_z was set to None through update_object_property, on which
\* generate_script raises.
CoordScenes ==
    LET added == add_object(<<>>, "Circle", "a1b2c3") IN
    {added.objects,
     update_object_property(added.objects, added.ret.id, "pos_z", NoneVal,
                            NoAxis).objects}

InitCoord ==
    /\ InitRender /\ InitUI
    /\ objects \in CoordScenes
    /\ call = Call("init", NoId, "")
    /\ ret = RetNone
    /\ edits = 0

ThreadStep(r) ==
    \/ SubprocessLaunch(r)
    \/ SubprocessExit(r)
    \/ ArtifactSearch(r)
    \/ FinallyBlock(r)

NextCoord ==
    \/ \E r \in Requests : HandleRefreshPreviewRequest(r)
    \/ \E r \in Requests : HandleRenderVideoRequest(r)
    \/ \E r \in Requests : ThreadStep(r)
    \/ RunCallback
    \/ InvokeCompletionHandler

SpecCoord == InitCoord /\ [][NextCoord]_vars

\* handle_refresh_preview_request called while an earlier preview is still
\* rendering: the method itself does not look at the panel's state (in the
\* application this happens when a video completion has re-enabled the
\* Refresh button in between).
RefreshPreviewCall(r) ==
    /\ r \in Requests
    /\ SubmitRender(r, "handle_refresh_preview_request", "preview",
                    RequestFlags("preview"), "png",
                    "Error generating preview script")

NextOverlap ==
    \/ \E r \in Requests : RefreshPreviewCall(r)
    \/ \E r \in Requests : ThreadStep(r)
    \/ RunCallback

SpecOverlap == InitCoord /\ [][NextOverlap]_vars

NextUI ==
    \/ HandleAddObjectRequest
    \/ TimelineSelect
    \/ HandleTimelineSelection
    \/ TimelineDelete

SpecUI == Init /\ [][NextUI]_vars

(***************************************************************************)
(* Render executor: properties                                             *)
(***************************************************************************)
\* The request is over: its thread ended, or render_async failed to set up.
Over(q) == q.pc \in {"done", "setup_failed"}

\* The outcome of the request is decided (success and payload are final).
Decided(q) == q.pc \in {"finally", "done", "setup_failed"}

\* The tasks of request r that schedule_task accepted, run or not yet run.
TasksOf(r) ==
    {sched[i] : i \in {j \in 1..Len(sched) : sched[j].of = r}}
      \cup {Task(r, delivered[r][i][1], delivered[r][i][2]) :
               i \in 1..Len(delivered[r])}

\* C1: the completion callback of a request is handed to schedule_task
\* exactly once: never twice at any time, and once when the request is over
\* (thread ended or setup failed), whatever the outcome was.
C1_HandedExactlyOnce ==
    \A r \in Requests :
        /\ req[r].schedCalls <= 1
        /\ Over(req[r]) => req[r].schedCalls = 1
        /\ Len(delivered[r]) + Cardinality({j \in 1..Len(sched) : sched[j].of = r})
              <= req[r].schedCalls

C1_Witness ==
    \E r, k \in Requests :
        /\ req[r].pc = "done" /\ req[r].exited /\ req[r].code = 1
        /\ req[k].pc = "setup_failed"
        /\ req[r].schedCalls = 1 /\ req[k].schedCalls = 1

\* The state of a request in the spec's state machine.
Status(q) ==
    CASE q.pc = "new" -> "NotSubmitted"
      [] q.pc = "started" -> "Submitted"
      [] q.pc \in {"running", "search"} -> "Running"
      [] OTHER -> IF q.success THEN "Succeeded" ELSE "Failed"

Rank(st) ==
    CASE st = "NotSubmitted" -> 0
      [] st = "Submitted" -> 1
      [] st = "Running" -> 2
      [] OTHER -> 3

\* C2: a request moves only forward through Submitted, Running, terminal;
\* once Succeeded or Failed it stays so; subprocess.run is called at most
\* once per request; and once the callback has been handed over by the
\* thread, the subprocess has been run and is over and, after return code 0,
\* the artifact search is finished.
C2_Step ==
    \A r \in Requests :
        /\ Rank(Status(req[r])) <= Rank(Status(req'[r]))
        /\ Status(req[r]) \in {"Succeeded", "Failed"}
              => Status(req'[r]) = Status(req[r])
        /\ req'[r].launches <= 1
        /\ (req'[r].schedCalls >= 1 /\ req'[r].threads >= 1)
              => /\ req'[r].launches = 1
                 /\ req'[r].pc \notin {"started", "running", "search"}
                 /\ (req'[r].exited /\ req'[r].code = 0) => req'[r].searched

C2_RequestStateMachine == [][C2_Step]_vars

C2_Witness ==
    \E r \in Requests :
        /\ req[r].pc = "done" /\ req[r].success
        /\ req[r].searched /\ req[r].schedCalls = 1

Expected(r) == IF req[r].fmt = "png" THEN Bytes(r) ELSE PathOf(r)

C5_NoSharedId ==
    \A i, j \in 1..Len(objects) :
        i # j => objects[i].id # objects[j].id

\* The property set the spec documents for each type: the keys, and the
\* values it gives.
DocumentedDefaults(T) ==
    LET common == [pos_x |-> FloatV(0), pos_y |-> FloatV(0), pos_z |-> FloatV(0),
                   opacity |-> FloatV(10), stroke_opacity |-> FloatV(10),
                   animation |-> StrV("None")]
        put(f, k, v) == [x \in DOMAIN f \cup {k} |-> IF x = k THEN v ELSE f[x]]
    IN CASE T = "Circle" ->
              put(put(put(put(common, "radius", FloatV(10)),
                          "fill_color", StrV("#58C4DD")),
                      "stroke_color", StrV("#FFFFFF")),
                  "stroke_width", FloatV(20))
         [] T = "Square" ->
              put(put(put(put(common, "side_length", FloatV(20)),
                          "fill_color", StrV("#58C4DD")),
                      "stroke_color", StrV("#FFFFFF")),
                  "stroke_width", FloatV(20))
         [] OTHER ->
              put(put(put(put(common, "text_content", StrV("Text")),
                          "fill_color", StrV("#FFFFFF")),
                      "stroke_color", StrV("#000000")),
                  "font_size", IntV(48))

\* C6: add_object(T) for a supported T appends exactly one object at the
\* end, returns an id that contains the lowercase type name, and
\* get_object_properties of the returned id is T's documented default set.
C6_AddStep ==
    (call'.op = "add_object" /\ call'.arg \in Types /\ objects' # objects) =>
        /\ Len(objects') = Len(objects) + 1
        /\ SubSeq(objects', 1, Len(objects)) = objects
        /\ ret'.kind = "id"
        /\ ret'.id.prefix = Lower(call'.arg)
        /\ objects'[Len(objects')].id = ret'.id
        /\ get_object_properties(objects', ret'.id)
             = RetProps(TRUE, DocumentedDefaults(call'.arg))

C6_AddGivesDefaults == [][C6_AddStep]_vars

\* C7: add_object with a type outside {Circle, Square, Text} raises the
\* unsupported-type error (ValueError) and leaves the object list as it was.
C7_Step ==
    (call'.op = "add_object" /\ call'.arg \notin Types) =>
        /\ ret' = RetRaise("ValueError")
        /\ objects' = objects

C7_UnsupportedTypeRaises == [][C7_Step]_vars

C7_Witness ==
    /\ call.op = "add_object" /\ call.arg = "Triangle"
    /\ ret = RetRaise("ValueError")
    /\ Len(objects) = MaxObjects

\* C8: removing an id that the scene holds removes the object with that id
\* from the scene.
C8_RemoveStep ==
    (call'.op = "delete_block" /\ call'.id \in Ids(objects)) =>
        call'.id \notin Ids(objects')

C8_RemoveRemovesObject == [][C8_RemoveStep]_vars

(***************************************************************************)
(* Script generation: properties                                           *)
(***************************************************************************)
ScriptReturned == ret.kind = "script"

\* Positions in the returned script of the lines of kind k appended for the
\* i-th object of the scene.
LinesOf(k, i) ==
    {j \in 1..Len(ret.lines) : ret.lines[j].k = k /\ ret.lines[j].src = i}

Positions(k) == {j \in 1..Len(ret.lines) : ret.lines[j].k = k}

\* A recognised intro animation for the object's type, as the spec lists
\* them: FadeIn and GrowFromCenter for any type, Write for Text only.
RecognisedIntro(o) ==
    \/ o.properties["animation"] \in {StrV("FadeIn"), StrV("GrowFromCenter")}
    \/ o.properties["animation"] = StrV("Write") /\ o.type = "Text"

IsShapeLine(l) == l.var.prefix \in {"circle", "square"}

C10_Ordering ==
    ScriptReturned =>
        LET L == ret.lines
            ctors == Positions("ctor")
            plays == Positions("play")
            adds == Positions("add")
            raises == Positions("raise")
        IN /\ \A a \in ctors, b \in plays \cup adds \cup raises : a < b
           /\ \A a \in plays, b \in adds \cup raises : a < b
           /\ \A a \in adds, b \in raises : a < b
           /\ \A a, b \in ctors : a < b => L[a].src < L[b].src
           /\ \A a, b \in plays : a < b => L[a].src < L[b].src
           /\ \A a, b \in adds :
                (~IsShapeLine(L[a]) /\ IsShapeLine(L[b])) => b < a
           /\ \A a, b \in adds :
                (a < b /\ IsShapeLine(L[a]) = IsShapeLine(L[b]))
                  => objects[L[a].src].properties["pos_z"].n
                       <= objects[L[b].src].properties["pos_z"].n
           /\ \A a \in plays : \E c \in ctors : c < a /\ L[c].var = L[a].var

\* A render script of a scene where exactly one object has animation FadeIn
\* and every other object has animation None.
OneFadeInRest(i) ==
    /\ ScriptReturned /\ ret.mode = "render"
    /\ i \in 1..Len(objects)
    /\ objects[i].properties["animation"] = StrV("FadeIn")
    /\ \A j \in 1..Len(objects) :
         j # i => objects[j].properties["animation"] = StrV("None")

IsUpdate == edits' = edits + 1 /\ call'.op = "update_object_property"
IsSetAnimation == edits' = edits + 1 /\ call'.op = "set_object_animation"

\* The object the call's id addresses before the call (0: none).
Target == FirstIndex(objects, call'.id)

\* Python's == on the model's values: numbers compare by value.
PyEq(a, b) == (IsNum(a) /\ IsNum(b) /\ a.n = b.n) \/ a = b

\* C12: update_object_property and set_object_animation with an id that no
\* object has do not raise and leave the object list exactly as it was.
C12_Step ==
    ((IsUpdate \/ IsSetAnimation) /\ call'.id \notin Ids(objects)) =>
        /\ ret'.kind # "raise"
        /\ objects' = objects

C12_UnknownIdIsNoOp == [][C12_Step]_vars

C12_Witness ==
    /\ edits = 1 /\ call.op = "update_object_property"
    /\ call.id = StaleId /\ call.id \notin Ids(objects)
    /\ call.arg = "radius" /\ call.value = NoneVal
    /\ Len(objects) = 2 /\ ret = RetNone

\* The call addresses a key the object does not have, the position form
\* with an axis in range excepted.
UnknownKey ==
    /\ IsUpdate /\ Target # 0
    /\ call'.arg \notin DOMAIN objects[Target].properties
    /\ ~(call'.arg = "position" /\ call'.axis \in {0, 1, 2})

\* C13: update_object_property on an existing object with a key that is not
\* one of its keys does not raise, does not add the key, and changes no
\* property.
C13_Step ==
    UnknownKey =>
        /\ ret'.kind # "raise"
        /\ call'.arg \notin DOMAIN objects'[Target].properties
        /\ objects' = objects

C13_UnknownKeyIgnored == [][C13_Step]_vars

NumericKeys == FloatKeys \cup {"pos_x", "pos_y", "pos_z"}

\* C14: for a key of the numeric set that the object has,
\* update_object_property stores float(value); when value has no float
\* conversion the call does not raise and the property keeps its value.
C14_Step ==
    (/\ IsUpdate /\ Target # 0
     /\ call'.arg \in NumericKeys
     /\ call'.arg \in DOMAIN objects[Target].properties) =>
        LET f == ToFloat(call'.value)
            old == objects[Target].properties[call'.arg]
            new == objects'[Target].properties[call'.arg]
        IN /\ ret'.kind # "raise"
           /\ f.ok => new = f.val
           /\ ~f.ok => new = old

C14_NumericKeysCoerced == [][C14_Step]_vars

\* C15: every object keeps every key of its type's default set; no call
\* removes a key of any object, and the objects' ids and types stay.
C15_Step ==
    /\ Len(objects') >= Len(objects)
    /\ \A i \in 1..Len(objects') :
          /\ objects'[i].type \in Types
          /\ DOMAIN DEFAULT_PROPS_MAP[objects'[i].type]
                \subseteq DOMAIN objects'[i].properties
    /\ \A i \in 1..Len(objects) :
          /\ objects'[i].id = objects[i].id
          /\ objects'[i].type = objects[i].type
          /\ DOMAIN objects[i].properties \subseteq DOMAIN objects'[i].properties

C15_DefaultKeysKept == [][C15_Step]_vars

C15_Witness ==
    /\ edits = MaxEdits /\ call.op = "update_object_property"
    /\ call.arg = "non_existent_prop"
    /\ \E i \in 1..Len(objects) :
         /\ objects[i].id = call.id
         /\ "non_existent_prop" \in DOMAIN objects[i].properties
         /\ DOMAIN DEFAULT_PROPS_MAP[objects[i].type]
               \subseteq DOMAIN objects[i].properties

\* The call addresses one of the object's own keys by its name: the form
\* ("position", axis_index) addresses a position component instead, also
\* when the object has come to have a key named "position".
OwnKey ==
    /\ IsUpdate /\ Target # 0
    /\ call'.arg \in DOMAIN objects[Target].properties
    /\ ~(call'.arg = "position" /\ call'.axis # NoAxis)

\* What get_object_properties(id)[key] gives after the call.
ReadBack == get_object_properties(objects', call'.id).props[call'.arg]

\* C16 as stated: after update_object_property(id, key, v) has returned, on
\* an existing object with one of its keys, get_object_properties(id)[key]
\* is v.
C16_Step ==
    (OwnKey /\ ret'.kind # "raise") => PyEq(ReadBack, call'.value)

C16_RoundTrip == [][C16_Step]_vars

\* The value has the kind of the key: a number for the numeric keys, a
\* string for the keys converted with str().
StrKeys == {"animation", "text_content", "fill_color"}

SameKind(key, v) ==
    /\ key \in NumericKeys => IsNum(v)
    /\ key \in StrKeys => v.t = "str"

\* C16 amended: the round trip holds when v is of the kind of the key (a
\* number for a numeric key, a string for animation, text_content and
\* fill_color); the call then returns normally, and under a float-converted
\* key the number comes back as a float of equal value.
C16_AmendedStep ==
    (OwnKey /\ SameKind(call'.arg, call'.value)) =>
        /\ ret' = RetNone
        /\ PyEq(ReadBack, call'.value)
        /\ call'.arg \in FloatKeys => ReadBack.t = "float"

C16_RoundTripSameKind == [][C16_AmendedStep]_vars

C16_Witness ==
    /\ edits >= 1 /\ call.op = "update_object_property"
    /\ call.arg = "radius" /\ call.value = IntV(2)
    /\ \E i \in 1..Len(objects) :
         /\ i = FirstIndex(objects, call.id)
         /\ objects[i].type = "Circle"
         /\ get_object_properties(objects, call.id).props["radius"] = FloatV(20)

\* C17: update_object_property with one of the object's own keys, and
\* set_object_animation on an existing object, change at most that key of
\* that object: the other keys, the other objects, and the number and order
\* of the objects stay.
C17_Step ==
    ((OwnKey \/ IsSetAnimation) /\ Target # 0) =>
        LET key == IF IsSetAnimation THEN "animation" ELSE call'.arg IN
        /\ Len(objects') = Len(objects)
        /\ \A j \in 1..Len(objects) :
              /\ j # Target => objects'[j] = objects[j]
              /\ objects'[j].id = objects[j].id
              /\ objects'[j].type = objects[j].type
        /\ DOMAIN objects'[Target].properties = DOMAIN objects[Target].properties
        /\ \A k \in DOMAIN objects[Target].properties :
              k # key => objects'[Target].properties[k]
                           = objects[Target].properties[k]
        /\ IsSetAnimation =>
              objects'[Target].properties["animation"] = StrV(call'.arg)

C17_OnlyThatKey == [][C17_Step]_vars

C17_Witness ==
    /\ edits >= 1 /\ call.op = "set_object_animation" /\ call.arg = "FadeIn"
    /\ Len(objects) = 2
    /\ objects[1].id = call.id /\ objects[2].id = call.id
    /\ objects[1].properties["animation"] = StrV("FadeIn")
    /\ objects[2].properties["animation"] = StrV("None")

\* C18: update_object_property(id, "position", v, axis_index = i) with i in
\* {0, 1, 2} and v convertible to float writes float(v) into the i-th of
\* pos_x, pos_y, pos_z of the object, whatever its type, and changes nothing
\* else.
C18_Step ==
    (/\ IsUpdate /\ Target # 0 /\ call'.arg = "position"
     /\ call'.axis \in {0, 1, 2} /\ ToFloat(call'.value).ok) =>
        LET key == <<"pos_x", "pos_y", "pos_z">>[call'.axis + 1] IN
        /\ ret' = RetNone
        /\ objects'[Target].properties[key] = ToFloat(call'.value).val
        /\ DOMAIN objects'[Target].properties = DOMAIN objects[Target].properties
        /\ \A k \in DOMAIN objects[Target].properties :
              k # key => objects'[Target].properties[k]
                           = objects[Target].properties[k]
        /\ \A j \in 1..Len(objects) : j # Target => objects'[j] = objects[j]
        /\ Len(objects') = Len(objects)

C18_PositionAxis == [][C18_Step]_vars

C18_Witness ==
    /\ edits >= 1 /\ call.op = "update_object_property"
    /\ call.arg = "position" /\ call.axis = 1 /\ call.value = StrV("1.5")
    /\ \E i \in 1..Len(objects) :
         /\ i = FirstIndex(objects, call.id)
         /\ objects[i].type = "Text"
         /\ objects[i].properties["pos_y"] = FloatV(15)
         /\ objects[i].properties["pos_x"] = FloatV(0)
         /\ objects[i].properties["pos_z"] = FloatV(0)

(***************************************************************************)
(* Coordinator: properties                                                 *)
(***************************************************************************)
\* Nothing is in flight: every submitted request is over (its thread ended,
\* or its setup failed) and the Tk loop has run every scheduled task.
Quiescent ==
    /\ \A r \in Requests : req[r].pc \in {"new", "done", "setup_failed"}
    /\ sched = <<>>

\* C19: a preview panel put in the rendering state is put back in the idle
\* state on every path.  Once the subprocesses have terminated and the UI
\* loop has run the scheduled tasks, nothing more will happen for the
\* requests made, so by then the panel is idle.
C19_BusyEndsIdle == Quiescent => preview.state = "idle"

\* The last handler run was a completion handler.
AfterCompletion == trace.handler \in {"_preview_callback", "_render_callback"}

\* The calls the handler made to the preview panel, in order.
PanelCalls ==
    SelectSeq(trace.calls,
              LAMBDA c : c \in {"display_image", "show_idle_state",
                                "show_rendering_state"})

FailedMessages == {"Preview failed.", "Video render failed."}

\* C20: after every run of a completion handler the last thing the preview
\* panel was told is show_idle_state, and it is idle; on a preview success
\* with bytes, display_image came first and got those bytes; on failure the
\* status line holds a message with "failed".
C20_CompletionEndsIdle ==
    AfterCompletion =>
        /\ preview.state = "idle"
        /\ PanelCalls # <<>>
        /\ PanelCalls[Len(PanelCalls)] = "show_idle_state"
        /\ (trace.handler = "_preview_callback" /\ trace.success
              /\ IsBytes(trace.payload)) =>
                 /\ PanelCalls = <<"display_image", "show_idle_state">>
                 /\ preview.image \in {trace.payload, NoImage}
        /\ ~trace.success => status \in FailedMessages

C20_Witness ==
    /\ trace.handler = "_preview_callback" /\ trace.success
    /\ ~IsBytes(trace.payload)
    /\ preview.state = "idle"
    /\ status = "Preview error: Invalid result type."

RequestHandlers ==
    {"handle_refresh_preview_request", "handle_render_video_request"}

\* The request the last request handler passed to render_async (0: none).
LastSubmitted ==
    IF \A r \in Requests : req[r].pc = "new" THEN 0
    ELSE CHOOSE r \in Requests :
           /\ req[r].pc # "new"
           /\ \A k \in Requests : req[k].pc # "new" => k <= r

\* The last handler run was a request handler in whose try block
\* generate_script or render_async raised.
SetupRaised ==
    /\ trace.handler \in RequestHandlers
    /\ \/ ret.kind = "raise"
       \/ LastSubmitted # 0 /\ req[LastSubmitted].raised

SetupErrors ==
    {"Error generating preview script", "Error generating render script"}

\* C21: when generate_script or render_async raises inside a request
\* handler, the handler ends with an error message on the status line and
\* the preview panel idle: show_idle_state is the last thing the panel was
\* told, also when show_rendering_state had been called before the failure.
C21_FailedSetupEndsIdle ==
    SetupRaised =>
        /\ status \in SetupErrors
        /\ preview.state = "idle"
        /\ PanelCalls # <<>>
        /\ PanelCalls[Len(PanelCalls)] = "show_idle_state"
        /\ (trace.handler = "handle_refresh_preview_request")
              <=> (status = "Error generating preview script")

C21_Witness ==
    /\ SetupRaised /\ ret.kind = "script"
    /\ trace.handler = "handle_render_video_request"
    /\ PanelCalls = <<"show_rendering_state", "show_idle_state">>
    /\ preview.state = "idle"

\* Every request was made as a preview request and is over, and the UI loop
\* has run every completion callback.
AllPreviewsDelivered ==
    /\ Quiescent
    /\ \A r \in Requests :
         /\ req[r].pc # "new" /\ req[r].fmt = "png"
         /\ Len(delivered[r]) = 1

\* C22: the completion callbacks of overlapping preview requests, run in
\* whatever order the threads handed them over, each leave the panel idle;
\* a callback that carries an image replaces whatever the panel showed (the
\* panel then shows that image, or its placeholder when the bytes do not
\* decode), so once all have run the panel shows the image of the callback
\* that ran last and never that of an earlier one.
C22_Step ==
    (trace'.handler = "_preview_callback" /\ delivered' # delivered) =>
        /\ preview'.state = "idle"
        /\ (trace'.success /\ IsBytes(trace'.payload)) =>
              preview'.image \in {trace'.payload, NoImage}
        /\ \E r \in Requests :
              /\ Len(delivered'[r]) = Len(delivered[r]) + 1
              /\ delivered'[r][Len(delivered'[r])]
                   = <<trace'.success, trace'.payload>>

C22_LastCompletionWins == [][C22_Step]_vars

\* The second request's callback ran first, the first request's last: the
\* panel shows the first request's image.
C22_Witness ==
    /\ AllPreviewsDelivered
    /\ delivered[1] = <<(<<TRUE, Bytes(1)>>)>>
    /\ delivered[2] = <<(<<TRUE, Bytes(2)>>)>>
    /\ trace.handler = "_preview_callback" /\ trace.payload = Bytes(1)
    /\ preview = [state |-> "idle", image |-> Bytes(1)]

\* The step is one of request r's background thread (_run_manim_thread).
InThread(r) ==
    /\ req[r].pc \in {"started", "running", "search", "finally"}
    /\ req'[r] # req[r]

\* C23: no step of a background thread runs the completion callback or
\* touches a panel; a callback runs only as the task at the head of the
\* queue that schedule_task filled, for thread results and for setup
\* failures alike, and with the (success, payload) it was scheduled with.
C23_Step ==
    /\ (\E r \in Requests : InThread(r)) =>
          /\ UNCHANGED <<preview, status, trace, blocks, selected, shown>>
          /\ delivered' = delivered
    /\ \A r \in Requests :
          delivered'[r] # delivered[r] =>
             /\ sched # <<>> /\ Head(sched).of = r
             /\ sched' = Tail(sched)
             /\ delivered'[r]
                  = Append(delivered[r],
                           <<Head(sched).success, Head(sched).payload>>)
             /\ ~InThread(r)

C23_CallbackOnlyScheduled == [][C23_Step]_vars

\* A thread has ended and handed over its callback, a setup failure has
\* handed over its own, and neither has run yet: the panel is still as the
\* request handlers left it.
C23_Witness ==
    \E r, k \in Requests :
        /\ req[r].pc = "done" /\ req[k].pc = "setup_failed" /\ ~req[k].raised
        /\ Len(sched) = 2 /\ delivered[r] = <<>> /\ delivered[k] = <<>>
        /\ preview.state = "rendering"
        /\ trace.handler \in RequestHandlers

(***************************************************************************)
(* Render executor: cleanup and diagnostics                                *)
(***************************************************************************)
\* The outcomes of a thread that has ended.
ThreadOutcome(q) ==
    CASE q.launches = 1 /\ ~q.exited -> "subprocess_raised"
      [] q.exited /\ q.code # 0 -> "nonzero_exit"
      [] q.exited /\ q.code = 0 /\ ~q.success -> "no_artifact"
      [] OTHER -> "success"

\* C24, the state part: when the thread of a request has ended, whatever
\* the outcome, os.remove was called once on the request's script, and the
\* script is gone unless that call failed.
C24_CleanedUpAtEnd ==
    \A r \in Requests :
        /\ req[r].pc = "done" => req[r].removes = 1
        /\ (req[r].threads = 1 /\ req[r].pc # "done") =>
              req[r].file /\ req[r].removes = 0

\* C24, the step part: the script of a request whose thread was started is
\* removed by the finally block only, which runs after subprocess.run has
\* returned or raised.
C24_RemoveStep ==
    \A r \in Requests :
        (req[r].threads = 1 /\ req'[r].removes # req[r].removes) =>
            /\ req[r].pc = "finally" /\ req'[r].pc = "done"
            /\ req[r].launches = 1
            /\ req[r].exited \/ req[r].payload = Diag("exception")

C24_ScriptRemovedAtEnd ==
    [](C24_CleanedUpAtEnd) /\ [][C24_RemoveStep]_vars

\* Two threads have ended, one after a non-zero exit and one after the
\* subprocess call raised; both scripts are gone.
C24_Witness ==
    \E r, k \in Requests :
        /\ req[r].pc = "done" /\ ThreadOutcome(req[r]) = "nonzero_exit"
        /\ req[k].pc = "done" /\ ThreadOutcome(req[k]) = "subprocess_raised"
        /\ ~req[r].file /\ ~req[k].file
        /\ req[r].removes = 1 /\ req[k].removes = 1

\* The thread of request r has ended and its os.remove failed: the script
\* is still there.
RemoveFailed(r) == req[r].pc = "done" /\ req[r].file

\* The thread of request r has ended and schedule_task did not take its
\* callback.
ScheduleFailed(r) == req[r].pc = "done" /\ TasksOf(r) = {}

\* C25: in the thread, a failing os.remove does not keep the callback from
\* being handed to schedule_task, a failing schedule_task does not keep the
\* script from being removed, and in neither case an exception leaves the
\* thread.
C25_CleanupAndCompletionIndependent ==
    \A r \in Requests :
        /\ RemoveFailed(r) =>
              /\ req[r].schedCalls = 1 /\ ~req[r].raised
              /\ ~ScheduleFailed(r) =>
                    TasksOf(r) = {Task(r, req[r].success, req[r].payload)}
        /\ ScheduleFailed(r) =>
              /\ req[r].removes = 1 /\ ~req[r].raised
              /\ req[r].schedCalls = 1

\* Both have happened: one thread could not remove its script and its
\* callback ran all the same; another could not schedule its callback and
\* its script is gone all the same.
C25_Witness ==
    \E r, k \in Requests :
        /\ RemoveFailed(r) /\ Len(delivered[r]) = 1
        /\ ScheduleFailed(k) /\ ~req[k].file /\ req[k].removes = 1

\* C26: a request whose subprocess exited with a non-zero code fails, and
\* its payload is a diagnostic that holds the exit code and the captured
\* standard error, or, the standard error being empty, the captured
\* standard output; the callback is handed over with that payload.
C26_NonZeroExitDiagnostic ==
    \A r \in Requests :
        (Decided(req[r]) /\ req[r].exited /\ req[r].code # 0) =>
            /\ ~req[r].success
            /\ req[r].payload.kind = "diag"
            /\ req[r].payload.code = req[r].code
            /\ req[r].stderr # "" => req[r].payload.err = req[r].stderr
            /\ req[r].stderr = "" => req[r].payload.out = req[r].stdout
            /\ \A t \in TasksOf(r) :
                 ~t.success /\ t.payload = req[r].payload

\* A callback was run with the diagnostic of a subprocess that wrote
\* nothing to its standard error.
C26_Witness ==
    \E r \in Requests :
        /\ req[r].pc = "done" /\ req[r].exited /\ req[r].code = 1
        /\ req[r].stderr = "" /\ req[r].stdout = "log"
        /\ delivered[r] = <<(<<FALSE, FailedMessage(1, "", "log")>>)>>
        /\ req[r].payload.err = "[No Stderr]"

(***************************************************************************)
(* Coordinator: adding and selecting                                       *)
(***************************************************************************)
\* The step is a run of handle_add_object_request.
IsAddRequest ==
    trace'.handler = "handle_add_object_request" /\ call'.op = "add_object"

\* How often the handler called the collaborator method.
Count(method, calls) == Len(SelectSeq(calls, LAMBDA c : c = method))

\* The methods of the timeline, properties and preview panels.
PanelMethods ==
    {"add_block", "display_properties", "show_placeholder", "display_image",
     "show_idle_state", "show_rendering_state"}

\* C27: handle_add_object_request on a supported type calls add_block once,
\* with the id add_object returned, and sets the status line; when
\* add_object raises its unsupported-type error the handler returns
\* normally with the error on the status line and has called no timeline,
\* properties or preview method.
C27_Step ==
    IsAddRequest =>
        IF ret'.kind = "id"
        THEN /\ trace'.success
             /\ Count("add_block", trace'.calls) = 1
             /\ blocks' = blocks \cup {ret'.id}
             /\ objects'[Len(objects')].id = ret'.id
             /\ Count("set_status", trace'.calls) = 1
             /\ status' = call'.arg \o " added (ID: " \o IdText(ret'.id) \o ")"
        ELSE /\ ret' = RetRaise("ValueError")
             /\ ~trace'.success
             /\ status' = "Error: Unsupported object type: " \o call'.arg
             /\ \A m \in PanelMethods : Count(m, trace'.calls) = 0
             /\ UNCHANGED <<blocks, shown, preview, selected, objects>>

C27_AddRequest == [][C27_Step]_vars

\* An unsupported type was requested after an object had been added and
\* selected: the timeline and the properties panel are as they were.
C27_Witness ==
    /\ trace.handler = "handle_add_object_request" /\ ~trace.success
    /\ call.arg = "Triangle" /\ ret = RetRaise("ValueError")
    /\ status = "Error: Unsupported object type: Triangle"
    /\ Cardinality(blocks) = 1 /\ shown.mode = "properties"

\* The step is a run of handle_timeline_selection.
IsSelection == trace'.handler = "handle_timeline_selection"

\* C28: handle_timeline_selection(x) stores x as the selection and then
\* does exactly one of three things.  x is an id of the scene: one
\* display_properties(x, the properties of x), no placeholder, a status that
\* names x.  x is another id: the placeholder and a "not found" status.  x
\* is None: the placeholder, the status "Ready", and no lookup in the scene.
C28_Step ==
    IsSelection =>
        LET x == selected'
            calls == trace'.calls
        IN
        /\ Count("get_object_properties", calls) = 1 => x = call'.id
        /\ Count("get_object_properties", calls) = 0 => x = NoSelection
        /\ Count("display_properties", calls)
             + Count("show_placeholder", calls) = 1
        /\ Count("set_status", calls) = 1
        /\ IF x = NoSelection
           THEN /\ calls = <<"show_placeholder", "set_status">>
                /\ shown'.mode = "placeholder"
                /\ status' = "Ready"
           ELSE IF x \in Ids(objects)
           THEN /\ calls = <<"get_object_properties", "display_properties",
                             "set_status">>
                /\ shown'.mode = "properties" /\ shown'.id = x
                /\ shown'.props = objects[FirstIndex(objects, x)].properties
                /\ status' = "Selected: " \o IdText(x)
           ELSE /\ calls = <<"get_object_properties", "show_placeholder",
                             "set_status">>
                /\ shown'.mode = "placeholder"
                /\ status' = "Error: Object " \o IdText(x) \o " not found"
                /\ status' \notin {"Ready", "Selected: " \o IdText(x)}

C28_SelectionCases == [][C28_Step]_vars

\* An id the scene does not have was selected while the scene has objects.
C28_Witness ==
    /\ trace.handler = "handle_timeline_selection"
    /\ selected = StaleId /\ selected \notin Ids(objects)
    /\ Len(objects) = 2
    /\ shown = Placeholder
    /\ status = "Error: Object circle_000000 not found"

\* The requests the step passes to render_async.
Submitted == {r \in Requests : req[r].pc = "new" /\ req'[r].pc # "new"}

\* Position of the first call of the method among the handler's calls (0:
\* not called).
IndexOf(method, calls) ==
    IF \E i \in 1..Len(calls) : calls[i] = method
    THEN CHOOSE i \in 1..Len(calls) :
           /\ calls[i] = method
           /\ \A j \in 1..(i - 1) : calls[j] # method
    ELSE 0

\* C29: a request handler that got its script calls render_async exactly
\* once: the preview handler with the preview script, its scene name, png
\* and the flags -s -ql, the video handler with the render script, its
\* scene name, mp4 and the flag -ql; show_rendering_state was called before
\* render_async, once.
C29_Step ==
    (trace'.handler \in RequestHandlers /\ Submitted # {}) =>
        /\ Cardinality(Submitted) = 1
        /\ Count("render_async", trace'.calls) = 1
        /\ Count("show_rendering_state", trace'.calls) = 1
        /\ IndexOf("show_rendering_state", trace'.calls)
             < IndexOf("render_async", trace'.calls)
        /\ IndexOf("generate_script", trace'.calls) = 1
        /\ ret'.kind = "script"
        /\ \A r \in Submitted :
             IF trace'.handler = "handle_refresh_preview_request"
             THEN /\ ret'.mode = "preview"
                  /\ req'[r].script = "preview"
                  /\ req'[r].scene = "PreviewScene"
                  /\ req'[r].fmt = "png"
                  /\ req'[r].flags = <<"-s", "-ql">>
             ELSE /\ ret'.mode = "render"
                  /\ req'[r].script = "render"
                  /\ req'[r].scene = "EasyManimScene"
                  /\ req'[r].fmt = "mp4"
                  /\ req'[r].flags = <<"-ql">>

C29_RequestArguments == [][C29_Step]_vars

\* A preview request and a video request have both been submitted and their
\* threads started.
C29_Witness ==
    \E r, k \in Requests :
        /\ req[r].pc # "new" /\ req[r].fmt = "png" /\ req[r].threads = 1
        /\ req[r].flags = <<"-s", "-ql">>
        /\ req[k].pc # "new" /\ req[k].fmt = "mp4" /\ req[k].threads = 1
        /\ req[k].flags = <<"-ql">>
        /\ trace.handler \in RequestHandlers
        /\ preview.state = "rendering"

(***************************************************************************)
(* Script generation: preview mode                                         *)
(***************************************************************************)
\* C30: a script generated in preview mode has no self.play line, whatever
\* the animation values of the objects, and has a self.add line for every
\* object of the scene, naming that object's variable.
C30_PreviewIsStatic ==
    (ScriptReturned /\ ret.mode = "preview") =>
        /\ Positions("play") = {}
        /\ \A i \in 1..Len(objects) :
             \E j \in LinesOf("add", i) :
                 ret.lines[j].var = VarName(objects[i])

\* A preview script of a scene with an object that fades in and a Text that
\* is written, which a render script would both play.
C30_Witness ==
    /\ ScriptReturned /\ ret.mode = "preview"
    /\ Len(objects) >= 2
    /\ \E i, k \in 1..Len(objects) :
         /\ Anim(objects[i]) = "FadeIn"
         /\ Anim(objects[k]) = "Write" /\ objects[k].type = "Text"

(***************************************************************************)
(* Script generation: the empty scene                                      *)
(***************************************************************************)
InHead(text) == \E j \in 1..Len(ret.head) : ret.head[j] = text

\* C31: for an empty scene generate_script returns, in either mode, the
\* mode's scene class name and a script with the import, the definition of
\* that class, the construct method and a body that is the single no-op
\* line: no constructor, no self.add and no self.play.
C31_EmptyScene ==
    (ScriptReturned /\ objects = <<>>) =>
        /\ ret.scene_name
             = (IF ret.mode = "preview" THEN "PreviewScene" ELSE "EasyManimScene")
        /\ InHead("from manim import *")
        /\ InHead("class " \o ret.scene_name \o "(Scene):")
        /\ InHead("    def construct(self):")
        /\ Len(ret.lines) = 1 /\ ret.lines[1].k = "pass"
        /\ Positions("ctor") = {}
        /\ Positions("add") = {}
        /\ Positions("play") = {}

\* The render script of the empty scene.
C31_Witness ==
    /\ ScriptReturned /\ objects = <<>>
    /\ ret.mode = "render" /\ ret.scene_name = "EasyManimScene"
    /\ Positions("pass") # {}

(***************************************************************************)
(*                 READS AND THE LIST get_all_objects RETURNS              *)
(***************************************************************************)
\* A returned list holds references: item i > 0 is the dictionary that is
\* SceneBuilder.objects[i], item 0 a dictionary the caller made.
RetList(items) == [kind |-> "list", items |-> items]

CallerObject ==
    [id |-> [prefix |-> "caller", suffix |-> "000000"], type |-> "Circle",
     properties |-> DEFAULT_PROPS_MAP["Circle"]]

\* Variant of get_all_objects that hands the list over and starts a new one.
get_all_objectsMoves(objs) ==
    [objects |-> <<>>, ret |-> RetList([j \in 1..Len(objs) |-> j])]

\* self.objects.copy(): a new list of the same dictionaries.
get_all_objects(objs) ==
    [objects |-> objs, ret |-> RetList([j \in 1..Len(objs) |-> j])]

GetAllObjects ==
    /\ LET r == get_all_objects(objects) IN
         /\ objects' = r.objects
         /\ ret' = r.ret
    /\ call' = Call("get_all_objects", NoId, "")
    /\ UNCHANGED <<edits, renderVars, uiVars, fs>>

\* What the caller does with the list: append, delete an item, assign to a
\* key of an item's property map.
ReturnedHeld == call.op \in {"get_all_objects", "returned_append",
                             "returned_remove", "returned_set_value"}

ReturnedAppend ==
    /\ ReturnedHeld
    /\ Len(ret.items) <= MaxObjects
    /\ ret' = RetList(Append(ret.items, 0))
    /\ call' = Call("returned_append", NoId, "")
    /\ UNCHANGED <<objects, edits, renderVars, uiVars, fs>>

ReturnedRemove ==
    /\ ReturnedHeld
    /\ \E j \in 1..Len(ret.items) :
         ret' = RetList(SubSeq(ret.items, 1, j - 1)
                          \o SubSeq(ret.items, j + 1, Len(ret.items)))
    /\ call' = Call("returned_remove", NoId, "")
    /\ UNCHANGED <<objects, edits, renderVars, uiVars, fs>>

ReturnedValueInputs == {<<"fill_color", StrV("#FF0000")>>, <<"pos_x", FloatV(2)>>}

ReturnedSetValue ==
    /\ ReturnedHeld
    /\ \E j \in 1..Len(ret.items), in \in ReturnedValueInputs :
         LET i == ret.items[j] IN
           /\ i # 0
           /\ objects' = [objects EXCEPT
                            ![i].properties = SetKey(@, in[1], in[2])]
           /\ call' = [op |-> "returned_set_value", id |-> objects[i].id,
                       arg |-> in[1], value |-> in[2], axis |-> NoAxis]
    /\ UNCHANGED <<ret, edits, renderVars, uiVars, fs>>

NextRead ==
    \/ GetAllObjects
    \/ GetObjectProperties
    \/ GenerateScript
    \/ SetObjectAnimation
    \/ ReturnedAppend
    \/ ReturnedRemove
    \/ ReturnedSetValue

SpecRead == InitEdit /\ [][NextRead]_vars

ReadOps == {"get_all_objects", "get_object_properties", "generate_script"}

\* The value of what the last call returned: for a list, the records its
\* items refer to.
Returned ==
    IF ret.kind = "list"
    THEN [kind |-> "list",
          items |-> [j \in 1..Len(ret.items) |->
                       IF ret.items[j] = 0 THEN CallerObject
                       ELSE objects[ret.items[j]]]]
    ELSE ret

\* C32: get_all_objects, get_object_properties and generate_script leave
\* the scene as it was, and a read that follows the same read with the same
\* arguments returns an equal result.
C32_Step ==
    /\ call'.op \in ReadOps => objects' = objects
    /\ (call.op \in ReadOps /\ call' = call) => Returned' = Returned

C33_Step ==
    /\ call'.op \in {"returned_append", "returned_remove"} => objects' = objects
    /\ call'.op = "returned_set_value" =>
         \E i \in 1..Len(objects') :
             /\ objects'[i].id = call'.id
             /\ objects'[i].properties[call'.arg] = call'.value
    /\ (/\ call.op = "returned_set_value"
        /\ call'.op = "get_object_properties"
        /\ call'.id = call.id)
         => /\ ret'.found
            /\ ret'.props[call.arg] = call.value

C33_ShallowCopy == [][C33_Step]_vars

(***************************************************************************)
(*                 SCRIPT GENERATION: RAISING TEXT                         *)
(***************************************************************************)
\* Scenes of Text objects and Circles at pos_z 0.0, 1.0 and 2.0, unanimated
\* or written.
RaiseObjectInputs ==
    {[id |-> MakeId(T, sfx), type |-> T,
      properties |-> [DEFAULT_PROPS_MAP[T] EXCEPT !.animation = StrV(a),
                                                  !.pos_z = FloatV(z)]] :
        T \in {"Text", "Circle"}, sfx \in Suffixes, a \in {"None", "Write"},
        z \in {0, 10, 20}}

RaiseScenes ==
    UNION {[1..n -> RaiseObjectInputs] : n \in 0..MaxObjects}

InitRaise ==
    /\ InitRender /\ InitUI
    /\ objects \in RaiseScenes
    /\ call = Call("init", NoId, "")
    /\ ret = RetNone
    /\ edits = 0

SpecRaise == InitRaise /\ [][GenerateScript]_vars

\* The Text objects the script adds with self.add.
PlainTexts ==
    {i \in 1..Len(objects) :
        objects[i].type = "Text" /\ LinesOf("add", i) # {}}

PositiveTexts == {i \in PlainTexts : PosZ(objects[i]) > 0}

ExtraRaises(i) ==
    {j \in LinesOf("raise", i) : ret.lines[j].why = "extra"}

\* C34: in a generated script every plainly added Text has a
\* bring_to_front after all the self.add statements; a Text with positive
\* pos_z has further bring_to_front lines, at least one and no fewer than a
\* Text with a lower pos_z has; and the last bring_to_front of the script
\* names a Text whose pos_z is the highest among those with positive pos_z.
C34_TextRaisedAbove ==
    ScriptReturned =>
        /\ \A i \in PlainTexts :
             \E j \in LinesOf("raise", i) : \A k \in Positions("add") : k < j
        /\ \A i \in PositiveTexts :
             /\ Cardinality(ExtraRaises(i)) >= 1
             /\ \A k \in PositiveTexts :
                  PosZ(objects[k]) >= PosZ(objects[i])
                    => Cardinality(ExtraRaises(k)) >= Cardinality(ExtraRaises(i))
        /\ PositiveTexts # {} =>
             LET last == CHOOSE j \in Positions("raise") :
                            \A k \in Positions("raise") : k <= j
                 top == ret.lines[last].src
             IN \A i \in PositiveTexts : PosZ(objects[i]) <= PosZ(objects[top])

(***************************************************************************)
(*                 SCRIPT GENERATION: STRING LITERALS                      *)
(***************************************************************************)
\* A string is a sequence of characters: a letter, the single quote, the
\* double quote, the backslash.
Chars == {"n", "'", "\"", "\\"}

Strings == UNION {[1..n -> Chars] : n \in 0..MaxLen}

\* str.replace(old, new) for a one-character old.
RECURSIVE Replace(_, _, _)
Replace(text, old, new) ==
    IF text = <<>> THEN <<>>
    ELSE (IF Head(text) = old THEN new ELSE <<Head(text)>>)
           \o Replace(Tail(text), old, new)

\* _format_manim_prop for a str: both quotes get a backslash, then the text
\* is put between single quotes.
format_manim_prop(value) ==
    LET escaped_value ==
            Replace(Replace(value, "'", <<"\\", "'">>), "\"", <<"\\", "\"">>)
    IN <<"'">> \o escaped_value \o <<"'">>

\* What the script's interpreter makes of backslash + c inside a quoted
\* string: the quotes and the backslash stand for themselves, n for a line
\* feed.
Unescape(c) == IF c = "n" THEN "LF" ELSE c

\* How the interpreter reads a single-quoted literal from its opening quote:
\* a backslash takes the next character with it, the first quote not taken
\* that way closes the literal.  end is the position of the closing quote (0:
\* the text ends before one), value the characters read.
RECURSIVE Scan(_, _, _)
Scan(text, i, acc) ==
    IF i > Len(text) THEN [end |-> 0, value |-> acc]
    ELSE IF text[i] = "'" THEN [end |-> i, value |-> acc]
    ELSE IF text[i] = "\\"
         THEN IF i + 1 > Len(text) THEN [end |-> 0, value |-> acc]
              ELSE Scan(text, i + 2, Append(acc, Unescape(text[i + 1])))
         ELSE Scan(text, i + 1, Append(acc, text[i]))

FormatManimProp ==
    \E value \in Strings :
        /\ call' = [op |-> "_format_manim_prop", id |-> NoId, arg |-> "",
                    value |-> value]
        /\ ret' = [kind |-> "literal", text |-> format_manim_prop(value)]
        /\ UNCHANGED <<objects, edits, renderVars, uiVars, fs>>

SpecFormat == Init /\ [][FormatManimProp]_vars

\* C35: the literal _format_manim_prop returns for a string is one quoted
\* string of the script's language: it opens with a quote, the quote that
\* closes it is its last character, and its value is the string given.
C35_LiteralRoundTrip ==
    call.op = "_format_manim_prop" =>
        /\ ret.text[1] = "'"
        /\ Scan(ret.text, 2, <<>>).end = Len(ret.text)
        /\ Scan(ret.text, 2, <<>>).value = call.value

(***************************************************************************)
(*                 TIMELINE, SCENE AND SELECTION                           *)
(***************************************************************************)
\* The events of the timeline and the toolbar: add requests, clicks on a
\* block or on the background, clicks on a delete button.
NextTimeline ==
    \/ HandleAddObjectRequest
    \/ TimelineSelect
    \/ TimelineDelete

SpecTimeline == Init /\ [][NextTimeline]_vars

\* C36: after add requests and delete-button clicks the ids that have a
\* block on the timeline are the ids of the objects the scene holds.
C36_TimelineMatchesScene == blocks = Ids(objects)

\* C38: after add, select, deselect and timeline-delete events,
\* selected_object_id is None or the id of an object the scene holds.
C38_SelectionInScene ==
    selected = NoSelection \/ selected \in Ids(objects)

\* An object is selected after the block of another was deleted.
C38_Witness ==
    /\ selected # NoSelection
    /\ selected \in blocks
    /\ Cardinality(blocks) = 1
    /\ Len(objects) = 2
    /\ Cardinality(Ids(objects)) = 2

(***************************************************************************)
(* Script generation: one introduction per object                          *)
(***************************************************************************)
\* C37: in a generated script of either mode every object of the scene is
\* introduced once: by one self.play or by one self.add, never by more.
C37_IntroducedOnce ==
    ScriptReturned =>
        \A i \in 1..Len(objects) :
            Cardinality(LinesOf("play", i)) + Cardinality(LinesOf("add", i)) = 1

(***************************************************************************)
(*                 A RENDER REQUEST AND LATER EDITS                        *)
(***************************************************************************)
\* The edits the other handlers make: a Square is added, an object gets
\* the animation FadeIn, an object's pos_z is set.
AddSquare ==
    /\ Len(objects) < MaxObjects
    /\ LET r == add_object(objects, "Square", "d4e5f6") IN
         /\ objects' = r.objects
         /\ ret' = r.ret
    /\ call' = Call("add_object", NoId, "Square")
    /\ UNCHANGED <<edits, renderVars, uiVars, fs>>

SetFadeIn ==
    \E id \in Ids(objects) :
        /\ edits < MaxEdits
        /\ objects' = set_object_animation(objects, id, "FadeIn")
        /\ ret' = RetNone
        /\ call' = Call("set_object_animation", id, "FadeIn")
        /\ edits' = edits + 1
        /\ UNCHANGED <<renderVars, uiVars, fs>>

SetPosZ ==
    \E id \in Ids(objects) :
        /\ edits < MaxEdits
        /\ LET r == update_object_property(objects, id, "pos_z", FloatV(10),
                                           NoAxis) IN
             /\ objects' = r.objects
             /\ ret' = r.ret
        /\ call' = CallUpdate(id, "pos_z", FloatV(10), NoAxis)
        /\ edits' = edits + 1
        /\ UNCHANGED <<renderVars, uiVars, fs>>

\* One render request, preview or video, with the scene edited at any
\* moment before, while and after its thread runs.
NextSnapshot ==
    \/ RefreshPreviewCall(1)
    \/ HandleRenderVideoRequest(1)
    \/ ThreadStep(1)
    \/ RunCallback
    \/ AddSquare
    \/ SetFadeIn
    \/ SetPosZ

SpecSnapshot == InitCoord /\ [][NextSnapshot]_vars

\* C39: the script a request runs is the one generate_script returned for
\* the scene as it was when the request was made; it stays the same for as
\* long as the request exists, whatever is done to the scene; and no step
\* of the background thread changes the scene or the record of the last
\* SceneBuilder call.
C39_Step ==
    \A r \in Requests :
        /\ (req[r].pc = "new" /\ req'[r].pc # "new") =>
              /\ objects' = objects
              /\ generate_script(objects, req'[r].script).kind = "script"
              /\ req'[r].content
                   = generate_script(objects, req'[r].script).lines
        /\ req[r].pc # "new" =>
              /\ req'[r].content = req[r].content
              /\ req'[r].script = req[r].script
        /\ InThread(r) => UNCHANGED sceneVars

C39_RendersSceneAsRequested == [][C39_Step]_vars

\* The subprocess of a request is running or has exited, and the scene has
\* been edited since the request was made: its script is no longer the one
\* the scene would give.
C39_Witness ==
    \E r \in Requests :
        /\ req[r].pc \in {"running", "search", "finally"}
        /\ req[r].launches = 1
        /\ generate_script(objects, req[r].script).kind = "script"
        /\ req[r].content # generate_script(objects, req[r].script).lines

(***************************************************************************)
(*                 OVERLAPPING REQUESTS AND THEIR FILES                    *)
(***************************************************************************)
\* Variant of FreshNames that may give the name of a script that exists.
FreshNamesAny(files) == Names

\* NamedTemporaryFile creates its file exclusively: the name is one no
\* file of the directory has.  A name whose script was removed may be given
\* again.
FreshNames(files) == Names \ files

\* The thread of the request is alive.
Active(q) == q.pc \in {"started", "running", "search", "finally"}

\* render_async with the file it creates: the script gets a fresh name when
\* NamedTemporaryFile succeeds, the thread gets that name as script_path.
FilesRenderAsync(r) ==
    /\ req[r].pc = "new"
    /\ \A k \in 1..(r - 1) : req[k].pc # "new"
    /\ \E a \in RenderInputs, setup \in SetupOutcomes, rmOk \in BOOLEAN,
          n \in FreshNames(fs.files) :
         LET q == render_async(req[r], a, setup, rmOk) IN
         /\ req' = [req EXCEPT ![r] = q]
         /\ sched' = IF q.schedCalls > req[r].schedCalls
                     THEN Append(sched, Task(r, q.success, q.payload))
                     ELSE sched
         /\ fs' = [fs EXCEPT
                     !.files = IF q.file THEN @ \cup {n} ELSE @,
                     !.path[r] = IF q.pc = "started" THEN n ELSE 0,
                     !.met = IF q.pc = "started"
                             THEN @ \cup {{r, k} : k \in {j \in Requests :
                                                            Active(req[j])}}
                             ELSE @]
    /\ UNCHANGED <<delivered, sceneVars, uiVars>>

\* subprocess.run returns: Manim has run script_path and may have written
\* an artifact under the stem of script_path.
FilesSubprocessExit(r) ==
    /\ req[r].pc = "running"
    /\ \E c \in ExitCodes, wrote \in BOOLEAN :
         /\ req' = [req EXCEPT ![r] = ExitResult(@, c, "", "")]
         /\ fs' = [fs EXCEPT !.media[fs.path[r]] = IF wrote THEN r ELSE @]
    /\ UNCHANGED <<sched, delivered, sceneVars, uiVars>>

\* The glob under the stem of script_path: it matches what the media
\* directory holds under that stem.
FilesArtifactSearch(r) ==
    /\ req[r].pc = "search"
    /\ \E globOk \in BOOLEAN, n \in FoundCounts, readOk \in BOOLEAN :
         LET q == SearchResult(req[r], r, globOk, n, readOk) IN
         /\ n > 0 <=> fs.media[fs.path[r]] # 0
         /\ req' = [req EXCEPT ![r] = [q EXCEPT !.pc = "finally"]]
         /\ fs' = [fs EXCEPT !.got[r] = IF q.success
                                        THEN fs.media[fs.path[r]] ELSE 0]
    /\ UNCHANGED <<sched, delivered, sceneVars, uiVars>>

\* The finally block: os.remove(script_path) removes the file of that name.
FilesFinallyBlock(r) ==
    /\ req[r].pc = "finally"
    /\ \E accepted \in BOOLEAN, rmOk \in BOOLEAN :
         LET q == ScheduleStep(req[r]) IN
         /\ req' = [req EXCEPT ![r] = CleanupStep(q, rmOk)]
         /\ sched' = IF accepted /\ q.schedCalls > req[r].schedCalls
                     THEN Append(sched, Task(r, q.success, q.payload))
                     ELSE sched
         /\ fs' = [fs EXCEPT !.files = IF rmOk THEN @ \ {fs.path[r]} ELSE @]
    /\ UNCHANGED <<delivered, sceneVars, uiVars>>

\* Two requests, made one after the other or overlapping, in every
\* interleaving of their threads and of the UI loop.
OverlapRequests == {1, 2}

NextFiles ==
    \/ \E r \in OverlapRequests : FilesRenderAsync(r)
    \/ \E r \in OverlapRequests : SubprocessLaunch(r)
    \/ \E r \in OverlapRequests : FilesSubprocessExit(r)
    \/ \E r \in OverlapRequests : FilesArtifactSearch(r)
    \/ \E r \in OverlapRequests : FilesFinallyBlock(r)
    \/ RunScheduledTask

SpecFiles == Init /\ [][NextFiles]_vars

\* C40: requests whose threads are alive together have scripts of different
\* names; the script of a request exists until its subprocess has returned,
\* whatever the cleanups of the others remove; the artifact a request's
\* search matched was not written by a request it overlapped with; and
\* every callback delivered for a request carries that request's outcome.
C40_RequestsIsolated ==
    /\ \A r, k \in Requests :
         (r # k /\ Active(req[r]) /\ Active(req[k])) =>
             fs.path[r] # fs.path[k]
    /\ \A r \in Requests :
         req[r].pc \in {"started", "running"} => fs.path[r] \in fs.files
    /\ \A r, k \in Requests :
         (r # k /\ {r, k} \in fs.met) => fs.got[r] # k
    /\ \A r \in Requests :
         \A i \in 1..Len(delivered[r]) :
             /\ delivered[r][i][2].of \in {0, r}
             /\ delivered[r][i] = <<req[r].success, req[r].payload>>

\* Two requests overlapped; the first has found its own artifact, removed
\* its script and had its callback run, the subprocess of the second is
\* still running.
C40_Witness ==
    /\ {1, 2} \in fs.met
    /\ req[1].pc = "done" /\ req[1].success /\ fs.got[1] = 1
    /\ fs.path[1] \notin fs.files
    /\ Len(delivered[1]) = 1
    /\ req[2].pc = "running" /\ fs.path[2] \in fs.files

====
